---- MODULE Spec2Model ----
(***************************************************************************)
(* Food identification and nutrition resolution pipeline.                  *)
(*                                                                         *)
(* Text is modelled as a sequence of tokens.  A string value is a sequence *)
(* of atoms: the atom " " is one whitespace character, every other atom is *)
(* a run of non-whitespace characters.  No string literal contains a brace *)
(* or a backtick.  A confidence is an integer number of hundredths         *)
(* (95 is 0.95), so the interval [0,1] is 0..100.                          *)
(*                                                                         *)
(* The form is bound to one of the two nutrition-actions modules of the    *)
(* repository (part_010, part_013).  The Back and Edit buttons of the      *)
(* review step and the manual editing of the list are left out: a run of   *)
(* processImage starts at the upload step with an empty list.  Of the log  *)
(* calls, those awaited inside processImageWithOpenAI are modelled by      *)
(* whether they return or throw; console output is left out.  The two      *)
(* definitions of searchFoodNutrition in openai-vision2.ts are both        *)
(* modelled; the lookups of the form use the later one.                    *)
(*                                                                         *)
(* The log stores are modelled on their own (SpecStore): the array of      *)
(* server-logger.ts, the array of the client logger, and the POST requests *)
(* that carry client entries to the server.  A timestamp is the number of  *)
(* milliseconds of its ISO string, which is what the code compares.  The   *)
(* entries that the server-side functions of one run write are modelled    *)
(* in SpecTraced, with the log calls taken to return.                      *)
(***************************************************************************)
EXTENDS Integers, Sequences, FiniteSets, TLC

\* ---------------------------------------------------------------- bounds
MaxItems == 2
MaxCand == 2

\* ---------------------------------------------------------------- tokens
SP == " "
LBrace == [k |-> "{"]
RBrace == [k |-> "}"]
LBrack == [k |-> "["]
RBrack == [k |-> "]"]
Colon == [k |-> ":"]
Comma == [k |-> ","]
TNull == [k |-> "null"]
TWord == [k |-> "word"]
TFenceJson == [k |-> "fencejson"]
TFence == [k |-> "fence"]
TStr(s) == [k |-> "str", s |-> s]
TNum(n) == [k |-> "num", n |-> n]

\* ----------------------------------------------------------- JSON values
JUndefined == [t |-> "undefined"]
JNull == [t |-> "null"]
JStr(s) == [t |-> "string", s |-> s]
JNum(n) == [t |-> "number", n |-> n]
JArr(a) == [t |-> "array", a |-> a]
JObj(o) == [t |-> "object", o |-> o]

\* obj[key] = val on a JavaScript object kept as a sequence of entries in
\* insertion order: an existing key keeps its position, a new key is appended.
SetProp(o, key, val) ==
  IF \E i \in 1..Len(o) : o[i].key = key
  THEN [i \in 1..Len(o) |-> IF o[i].key = key THEN [key |-> key, val |-> val] ELSE o[i]]
  ELSE Append(o, [key |-> key, val |-> val])

HasProp(o, key) == \E i \in 1..Len(o) : o[i].key = key

PropOf(o, key) == o[CHOOSE i \in 1..Len(o) : o[i].key = key].val

\* value.key for a value that is not null or undefined
GetProp(v, key) ==
  IF v.t = "object" /\ HasProp(v.o, key) THEN PropOf(v.o, key) ELSE JUndefined

Truthy(v) ==
  CASE v.t = "undefined" -> FALSE
    [] v.t = "null" -> FALSE
    [] v.t = "string" -> v.s # <<>>
    [] v.t = "number" -> v.n # 0
    [] OTHER -> TRUE

\* ------------------------------------------------------------ JSON.parse
ParseFail == [ok |-> FALSE]
ParseOk(v, i) == [ok |-> TRUE, v |-> v, i |-> i]

RECURSIVE ParseValue(_, _)
RECURSIVE ParseElements(_, _, _)
RECURSIVE ParseMembers(_, _, _)

ParseValue(toks, i) ==
  IF i > Len(toks) THEN ParseFail
  ELSE LET tk == toks[i] IN
    CASE tk.k = "str" -> ParseOk(JStr(tk.s), i + 1)
      [] tk.k = "num" -> ParseOk(JNum(tk.n), i + 1)
      [] tk.k = "null" -> ParseOk(JNull, i + 1)
      [] tk.k = "[" ->
           IF i + 1 <= Len(toks) /\ toks[i + 1].k = "]"
           THEN ParseOk(JArr(<<>>), i + 2)
           ELSE ParseElements(toks, i + 1, <<>>)
      [] tk.k = "{" ->
           IF i + 1 <= Len(toks) /\ toks[i + 1].k = "}"
           THEN ParseOk(JObj(<<>>), i + 2)
           ELSE ParseMembers(toks, i + 1, <<>>)
      [] OTHER -> ParseFail

ParseElements(toks, i, acc) ==
  LET r == ParseValue(toks, i) IN
  IF ~r.ok THEN ParseFail
  ELSE IF r.i > Len(toks) THEN ParseFail
  ELSE IF toks[r.i].k = "," THEN ParseElements(toks, r.i + 1, Append(acc, r.v))
  ELSE IF toks[r.i].k = "]" THEN ParseOk(JArr(Append(acc, r.v)), r.i + 1)
  ELSE ParseFail

ParseMembers(toks, i, acc) ==
  IF i + 1 > Len(toks) THEN ParseFail
  ELSE IF toks[i].k # "str" \/ toks[i + 1].k # ":" THEN ParseFail
  ELSE LET r == ParseValue(toks, i + 2) IN
    IF ~r.ok THEN ParseFail
    ELSE IF r.i > Len(toks) THEN ParseFail
    ELSE IF toks[r.i].k = "," THEN ParseMembers(toks, r.i + 1, SetProp(acc, toks[i].s, r.v))
    ELSE IF toks[r.i].k = "}" THEN ParseOk(JObj(SetProp(acc, toks[i].s, r.v)), r.i + 1)
    ELSE ParseFail

\* JSON.parse(text): the whole text must be one value
JSONParse(toks) ==
  LET r == ParseValue(toks, 1) IN
  IF r.ok /\ r.i = Len(toks) + 1 THEN [ok |-> TRUE, v |-> r.v] ELSE ParseFail

\* ------------------------------------------------------- String.trim
RECURSIVE TrimLeft(_)
TrimLeft(s) == IF s # <<>> /\ Head(s) = SP THEN TrimLeft(Tail(s)) ELSE s

RECURSIVE TrimRight(_)
TrimRight(s) ==
  IF s # <<>> /\ s[Len(s)] = SP THEN TrimRight(SubSeq(s, 1, Len(s) - 1)) ELSE s

Trim(s) == TrimRight(TrimLeft(s))

\* ------------------------------------------- vision response parser
KFoodItems == <<"foodItems">>
KExtractedText == <<"extractedText">>
KName == <<"name">>
KConfidence == <<"confidence">>

FenceKinds == {"fencejson", "fence"}

\* index of the first token at or after from whose kind is in kinds, 0 if none
FirstFrom(toks, kinds, from) ==
  LET S == {i \in from..Len(toks) : toks[i].k \in kinds} IN
  IF S = {} THEN 0 ELSE CHOOSE i \in S : \A j \in S : i <= j

\* index of the last token whose kind is in kinds, 0 if none
LastOf(toks, kinds) ==
  LET S == {i \in 1..Len(toks) : toks[i].k \in kinds} IN
  IF S = {} THEN 0 ELSE CHOOSE i \in S : \A j \in S : j <= i

NoMatch == [found |-> FALSE]

\* an opening fence, a lazily matched group, and the first three backticks
\* after it (a plain fence, or the head of another json fence)
MatchFence(toks, openKinds) ==
  LET i == FirstFrom(toks, openKinds, 1)
      j == IF i = 0 THEN 0 ELSE FirstFrom(toks, FenceKinds, i + 1)
  IN IF j = 0 THEN NoMatch
     ELSE [found |-> TRUE, hasGroup |-> TRUE,
           group |-> SubSeq(toks, i + 1, j - 1),
           whole |-> SubSeq(toks, i, j - 1) \o <<TFence>>]

\* /{[\s\S]*?}/ : the first opening brace up to the first closing brace after it
MatchBraceLazy(toks) ==
  LET i == FirstFrom(toks, {"{"}, 1)
      j == IF i = 0 THEN 0 ELSE FirstFrom(toks, {"}"}, i + 1)
  IN IF j = 0 THEN NoMatch
     ELSE [found |-> TRUE, hasGroup |-> FALSE, group |-> <<>>,
           whole |-> SubSeq(toks, i, j)]

\* /{[\s\S]*}/ : the first opening brace up to the last closing brace
MatchBraceGreedy(toks) ==
  LET i == FirstFrom(toks, {"{"}, 1)
      j == LastOf(toks, {"}"})
  IN IF i = 0 \/ j < i THEN NoMatch
     ELSE [found |-> TRUE, hasGroup |-> FALSE, group |-> <<>>,
           whole |-> SubSeq(toks, i, j)]

\* responseContent.match(a) || responseContent.match(b) || responseContent.match(c)
jsonMatch(responseContent) ==
  LET m1 == MatchFence(responseContent, {"fencejson"})
      m2 == MatchFence(responseContent, FenceKinds)
  IN IF m1.found THEN m1
     ELSE IF m2.found THEN m2
     ELSE MatchBraceLazy(responseContent)

\* jsonMatch[1] || jsonMatch[0] : an empty group is falsy
jsonString(m) == IF m.hasGroup /\ m.group # <<>> THEN m.group ELSE m.whole

\* .replace(/^```json\s*/, "").replace(/\s*```$/, "").trim()
cleanedString(str) ==
  LET a == IF str # <<>> /\ Head(str).k = "fencejson" THEN Tail(str) ELSE str
  IN IF a # <<>> /\ a[Len(a)].k = "fence" THEN SubSeq(a, 1, Len(a) - 1) ELSE a

\* the second attempt: extract JSON from markdown or code blocks
ExtractParse(responseContent) ==
  LET m == jsonMatch(responseContent) IN
  IF m.found THEN JSONParse(cleanedString(jsonString(m))) ELSE ParseFail

DefaultParsed ==
  JObj(<<[key |-> KFoodItems, val |-> JArr(<<>>)],
         [key |-> KExtractedText, val |-> JArr(<<>>)]>>)

\* parsedResponse after the direct parse and the fallback extraction
parsedResponse(responseContent) ==
  LET direct == JSONParse(responseContent)
      extract == ExtractParse(responseContent)
  IN IF direct.ok THEN direct.v
     ELSE IF extract.ok THEN extract.v
     ELSE DefaultParsed

Min(a, b) == IF a < b THEN a ELSE b
Max(a, b) == IF a > b THEN a ELSE b

\* variant of ensureFoodItem that keeps a numeric confidence as it is
ensureFoodItemUnclamped(item) ==
  LET n == GetProp(item, KName)
      c == GetProp(item, KConfidence)
  IN [name |-> IF n.t = "string" THEN n.s ELSE <<>>,
      confidence |-> IF c.t = "number" THEN c.n ELSE 0]

\* item is a parsed JSON value other than null
ensureFoodItem(item) ==
  LET n == GetProp(item, KName)
      c == GetProp(item, KConfidence)
  IN [name |-> IF n.t = "string" THEN n.s ELSE <<>>,
      confidence |-> IF c.t = "number" THEN Min(Max(c.n, 0), 100) ELSE 0]

NameNotBlank(item) == Trim(item.name) # <<>>

VisionFailure == [isSuccess |-> FALSE, message |-> "Failed to process image"]

\* lines 237-263: structure check, ensureFoodItem, filter; a TypeError goes to
\* the outer catch
NormalizeParsed(p) ==
  IF p.t \notin {"object", "array"} THEN VisionFailure
  ELSE LET fi == IF Truthy(GetProp(p, KFoodItems)) THEN GetProp(p, KFoodItems) ELSE JArr(<<>>)
           et == IF Truthy(GetProp(p, KExtractedText)) THEN GetProp(p, KExtractedText) ELSE JArr(<<>>)
       IN IF fi.t # "array" THEN VisionFailure
          ELSE IF \E i \in 1..Len(fi.a) : fi.a[i].t = "null" THEN VisionFailure
          ELSE [isSuccess |-> TRUE, message |-> "Image processed successfully",
                data |-> [foodItems |-> SelectSeq([i \in 1..Len(fi.a) |-> ensureFoodItem(fi.a[i])], NameNotBlank),
                          extractedText |-> et]]

\* the model call either throws or returns a message content
ApiThrows == [throws |-> TRUE, pending |-> FALSE]
ApiContent(c) == [throws |-> FALSE, pending |-> FALSE, content |-> c]

\* variant of processImageWithOpenAI whose outer catch returns the default
\* empty result
processImageWithOpenAIDefaulting(response) ==
  IF response.throws \/ response.content = <<>>
  THEN [isSuccess |-> TRUE, message |-> "Image processed successfully",
        data |-> [foodItems |-> <<>>, extractedText |-> JArr(<<>>)]]
  ELSE NormalizeParsed(parsedResponse(response.content))

processImageWithOpenAI(response) ==
  IF response.throws THEN VisionFailure
  ELSE IF response.content = <<>> THEN VisionFailure
  ELSE NormalizeParsed(parsedResponse(response.content))

\* processImageWithOpenAI called with a traceId, lines 106-152 and 263-280:
\* logOpenAIVisionRequest and logOpenAIVisionResponse are awaited inside the
\* try, so a log call that throws is caught like any other error
LogOutcomes == {"ok", "throws"}

processImageWithOpenAITraced(response, logOutcome) ==
  IF logOutcome = "throws" THEN VisionFailure
  ELSE processImageWithOpenAI(response)

\* the earlier processImageWithOpenAI: json fence or greedy brace span, a
\* failed parse is thrown, the items are returned as parsed
processImageWithOpenAIPart015(response) ==
  IF response.throws THEN VisionFailure
  ELSE IF response.content = <<>> THEN VisionFailure
  ELSE LET m1 == MatchFence(response.content, {"fencejson"})
           m == IF m1.found THEN m1 ELSE MatchBraceGreedy(response.content)
           r == IF m.found THEN JSONParse(jsonString(m)) ELSE JSONParse(response.content)
       IN IF ~r.ok THEN VisionFailure
          ELSE IF r.v.t \notin {"object", "array"} THEN VisionFailure
          ELSE [isSuccess |-> TRUE, message |-> "Image processed successfully",
                data |-> [foodItems |-> IF Truthy(GetProp(r.v, KFoodItems))
                                        THEN GetProp(r.v, KFoodItems) ELSE JArr(<<>>),
                          extractedText |-> IF Truthy(GetProp(r.v, KExtractedText))
                                            THEN GetProp(r.v, KExtractedText) ELSE JArr(<<>>)]]

\* ------------------------------------------ normalizeProcessingResult
\* item is a FoodItem {name, confidence} of a successful result
ensureFoodItemTrimmed(item) ==
  [name |-> Trim(item.name),
   confidence |-> Min(Max(item.confidence, 0), 100)]

NameNotEmpty(item) == item.name # <<>>

TextNotBlank(v) == v.t = "string" /\ Trim(v.s) # <<>>

TrimText(v) == JStr(Trim(v.s))

GeneralError == [isSuccess |-> FALSE, message |-> "An unexpected error occurred while processing the image"]

normalizeProcessingResult(result) ==
  IF ~result.isSuccess THEN result
  ELSE LET normalizedFoodItems ==
             SelectSeq([i \in 1..Len(result.data.foodItems) |->
                          ensureFoodItemTrimmed(result.data.foodItems[i])], NameNotEmpty)
           et == result.data.extractedText
           texts == IF et.t = "array" THEN SelectSeq(et.a, TextNotBlank) ELSE <<>>
       IN IF et.t # "array" THEN GeneralError
          ELSE [isSuccess |-> TRUE,
                message |-> IF normalizedFoodItems = <<>>
                            THEN "No food items detected in the image"
                            ELSE "Image processed successfully",
                data |-> [foodItems |-> normalizedFoodItems,
                          extractedText |-> JArr([i \in 1..Len(texts) |-> TrimText(texts[i])])]]

\* ------------------------------------------------- vision response texts
Member(key, valToks) == <<TStr(key), Colon>> \o valToks

ItemObj(nameToks, confToks) ==
  <<LBrace>> \o Member(KName, nameToks)
    \o (IF confToks = <<>> THEN <<>> ELSE <<Comma>> \o Member(KConfidence, confToks))
    \o <<RBrace>>

SampleNames == {<<>>, <<SP>>, <<"Apple">>, <<SP, "Banana", SP>>}

SampleConfs == {<<TNum(95)>>, <<TNum(150)>>, <<TNum(0 - 5)>>, <<TStr(<<"high">>)>>, <<>>}

SampleItems ==
  {ItemObj(<<TStr(n)>>, <<TNum(90)>>) : n \in SampleNames}
    \cup {ItemObj(<<TStr(<<"Apple">>)>>, c) : c \in SampleConfs}
    \cup {<<TNull>>, <<TStr(<<"Apple">>)>>, ItemObj(<<TNum(7)>>, <<TNum(95)>>)}

SeqsUpTo(S, n) == UNION {[1..m -> S] : m \in 0..n}

RECURSIVE JoinItems(_)
JoinItems(list) ==
  IF list = <<>> THEN <<>>
  ELSE IF Len(list) = 1 THEN list[1]
  ELSE list[1] \o <<Comma>> \o JoinItems(Tail(list))

EmptyArray == <<LBrack, RBrack>>

Doc(list, et) ==
  <<LBrace>> \o Member(KFoodItems, <<LBrack>> \o JoinItems(list) \o <<RBrack>>)
    \o <<Comma>> \o Member(KExtractedText, et) \o <<RBrace>>

SampleTexts == {EmptyArray, <<LBrack, TStr(<<SP, "menu">>), Comma, TStr(<<SP>>), RBrack>>, <<TStr(<<"menu">>)>>}

ShapedDocs ==
  {Doc(l, EmptyArray) : l \in SeqsUpTo(SampleItems, MaxItems)}
    \cup {Doc(l, et) : l \in SeqsUpTo(SampleItems, 1), et \in SampleTexts}

OddDocs ==
  {<<LBrace>> \o Member(KFoodItems, <<TStr(<<"x">>)>>) \o <<RBrace>>,
   <<LBrace>> \o Member(KFoodItems, <<TNull>>) \o <<RBrace>>,
   <<LBrace>> \o Member(KFoodItems, <<LBrace, RBrace>>) \o <<RBrace>>,
   <<LBrace>> \o Member(KFoodItems, <<TNum(3)>>) \o <<RBrace>>,
   <<LBrace, RBrace>>,
   <<TNull>>,
   EmptyArray,
   <<TNum(5)>>,
   <<TStr(<<"Apple">>)>>}

Wrappings(d) ==
  {d,
   <<TWord>> \o d,
   d \o <<TWord>>,
   <<TFenceJson>> \o d \o <<TFence>>,
   <<TFence>> \o d \o <<TFence>>,
   <<TWord, TFenceJson>> \o d \o <<TFence, TWord>>,
   <<TFenceJson>> \o d}

Truncations ==
  UNION {{SubSeq(d, 1, k) : k \in 0..(Len(d) - 1)} :
           d \in {Doc(l, EmptyArray) : l \in SeqsUpTo(SampleItems, 1)}}

\* prose, then the object with Apple 0.95 and Banana 0.9
ScenarioA ==
  <<TWord>> \o Doc(<<ItemObj(<<TStr(<<"Apple">>)>>, <<TNum(95)>>),
                     ItemObj(<<TStr(<<"Banana">>)>>, <<TNum(90)>>)>>, EmptyArray)

\* the text "no json here"
ScenarioB == <<TWord, TWord, TWord>>

ResponseTexts ==
  UNION {Wrappings(d) : d \in ShapedDocs \cup OddDocs}
    \cup Truncations
    \cup {ScenarioA, ScenarioB, <<TFenceJson, TFence>>, <<TFence, TFence>>}

\* ------------------------------------------------------------- state
VARIABLES
  content,        \* parser run: the message content of the model response
  pstage,         \* parser run: "input", "extract", "normalize", "done", "normalized"
  parsed,         \* parser run: parsedResponse
  visionResult,   \* parser run: what processImageWithOpenAI returns
  normalized,     \* parser run: what normalizeProcessingResult returns
  nutritionActions, \* which nutrition-actions module the form is bound to
  session,        \* auth() yields a userId
  imageFile,      \* form state: an image file is selected
  imageBase64,    \* form state: its base64 data is available
  currentStep,    \* form state: MealLogStep
  foodItems,      \* form state: the item list
  error,          \* form state: the error message, "null" if none
  isProcessing,   \* form state
  fpc,            \* position of processImage
  apiResponse,    \* the outcome of the model call of this run
  detectResult,   \* the result of detectFoodInImageAction in this run
  detectedItems,  \* processImage: the items built from the detection
  mode,           \* which caller the running lookups belong to
  taskPc,         \* per lookup: "auth", "usda", "off", "done"
  taskUsda,       \* per lookup: outcome of the USDA search
  taskOff,        \* per lookup: outcome of the OpenFoodFacts search
  results,        \* batchNutritionLookupAction: the result object
  processed,      \* Promise.all over fetchNutritionForFoodItem: item per index
  returnedBy,     \* the return of processFoodItemsWithNutrition that was taken
  resolverCalls,  \* searchFoodNutrition invocations in this run
  batchCalls,     \* batchNutritionLookupAction invocations in this run
  query,          \* resolver run: the food name looked up
  searchVersion,  \* resolver run: which searchFoodNutrition is bound
  lookupModule,   \* resolver run: which nutrition-actions module is bound
  usdaData,       \* resolver run: what the USDA request yields
  offData,        \* resolver run: what the OpenFoodFacts request yields
  usdaResults,    \* resolver run: what searchUSDAFoods returned
  offResults,     \* resolver run: what searchOpenFoodFacts returned
  searchResult,   \* resolver run: the items searchFoodNutrition returned
  lookupResult,   \* resolver run: what getNutritionInfoAction returned
  rpc,            \* resolver run: "off", "search", "lookup", "done"
  visionLog,      \* how the log calls of processImageWithOpenAI ended in this run
  loggerHook,     \* trace context: which useFoodIdentificationLogger is bound
  mounted,        \* trace context: the form is mounted
  traceId,        \* trace context: logger.traceId of the latest render, 0 for ""
  sessionStorage, \* trace context: the stored trace id, 0 for none
  generated,      \* trace context: number of trace ids generated so far
  uploadTraceId,  \* trace context: the id the upload event was logged under
  runTraceIds,    \* trace context: per run, the ids of its events
  serverLogs,     \* log store: the array of server-logger.ts
  logs,           \* log store: the array of the client logger
  inflight,       \* log store: the entries of the POST requests under way
  now,            \* log store: the time
  created,        \* log store: number of entries created so far
  tracedPc,       \* traced run: where the run is
  visionAnswer,   \* traced run: what the model call did
  lookups         \* traced run: per name, where the lookup is and what
                  \* its provider calls did

\* the trace context
cvars == <<loggerHook, mounted, traceId, sessionStorage, generated,
           uploadTraceId, runTraceIds>>

\* the log store
svars == <<serverLogs, logs, inflight, now, created>>

\* the traced run
evars == <<tracedPc, visionAnswer, lookups>>

\* the trace context, the log store and the traced run
hvars == <<cvars, svars, evars>>

rvars == <<query, searchVersion, lookupModule, usdaData, offData, usdaResults,
           offResults, searchResult, lookupResult, rpc>>

\* the parser run and the resolver run
qvars == <<content, pstage, parsed, visionResult, normalized, rvars, hvars>>

\* what the form actions other than the vision call leave alone
pvars == <<qvars, visionLog>>

gvars == <<nutritionActions, session, imageFile, imageBase64, currentStep,
           foodItems, error, isProcessing, fpc, apiResponse, detectResult,
           detectedItems, mode, taskPc, taskUsda, taskOff, results, processed,
           returnedBy, resolverCalls, batchCalls, visionLog>>

\* what the parser run and the resolver run leave alone
fvars == <<gvars, hvars>>

vars == <<pvars, fvars>>

NoResult == [isSuccess |-> FALSE, message |-> "none"]

\* ----------------------------------------------------- parser run
ParserIdle ==
  /\ content = <<>>
  /\ pstage = "off"
  /\ parsed = JUndefined
  /\ visionResult = NoResult
  /\ normalized = NoResult

\* lines 155-170 and 178-180: empty content throws, else the direct parse
DirectParseStep ==
  /\ pstage = "input"
  /\ IF content = <<>>
     THEN /\ visionResult' = VisionFailure
          /\ pstage' = "done"
          /\ UNCHANGED parsed
     ELSE /\ IF JSONParse(content).ok
             THEN parsed' = JSONParse(content).v /\ pstage' = "normalize"
             ELSE parsed' = DefaultParsed /\ pstage' = "extract"
          /\ UNCHANGED visionResult
  /\ UNCHANGED <<content, normalized, rvars, fvars>>

\* lines 197-234: the fallback extraction; failure keeps the default
ExtractStep ==
  /\ pstage = "extract"
  /\ parsed' = IF ExtractParse(content).ok THEN ExtractParse(content).v ELSE parsed
  /\ pstage' = "normalize"
  /\ UNCHANGED <<content, visionResult, normalized, rvars, fvars>>

\* lines 237-280
NormalizeStep ==
  /\ pstage = "normalize"
  /\ visionResult' = NormalizeParsed(parsed)
  /\ pstage' = "done"
  /\ UNCHANGED <<content, parsed, normalized, rvars, fvars>>

\* processPublicImageAction: normalizeProcessingResult on the result
NormalizeResultStep ==
  /\ pstage = "done"
  /\ normalized' = normalizeProcessingResult(visionResult)
  /\ pstage' = "normalized"
  /\ UNCHANGED <<content, parsed, visionResult, rvars, fvars>>

\* ------------------------------------------------- nutrition resolver
Undef == "undefined"

DEFAULT_NUTRITION == [calories |-> 0, protein |-> 0, carbs |-> 0, fat |-> 0]

getFallbackNutrition(foodName) ==
  [name |-> foodName, description |-> "Estimated nutrition", nutrition |-> DEFAULT_NUTRITION,
   source |-> "default", sourceId |-> Undef, confidence |-> 0]

\* String.toLowerCase on the atoms the model uses
LowerAtom(a) ==
  CASE a = "Apple" -> "apple"
    [] a = "APPLE" -> "apple"
    [] a = "Banana" -> "banana"
    [] a = "BANANA" -> "banana"
    [] OTHER -> a

toLowerCase(str) == [i \in 1..Len(str) |-> LowerAtom(str[i])]

\* what transformUSDAFood returns for a food whose description is name
UsdaFood(name) ==
  [name |-> name, description |-> "",
   nutrition |-> [calories |-> 52, protein |-> 1, carbs |-> 14, fat |-> 0],
   source |-> "USDA", sourceId |-> "fdc", confidence |-> 90]

\* what transformOpenFoodFactsProduct returns for a product named name
OffProduct(name) ==
  [name |-> name, description |-> "",
   nutrition |-> [calories |-> 48, protein |-> 0, carbs |-> 11, fat |-> 1],
   source |-> "OpenFoodFacts", sourceId |-> "code", confidence |-> 80]

\* a provider call: it fails (throws, non-OK status, no API key) or answers
ProviderFail == [status |-> "fail", items |-> <<>>]
ProviderOk(items) == [status |-> "ok", items |-> items]
ProviderPending == [status |-> "pending", items |-> <<>>]

UsdaOutcomes(foodName) == {ProviderFail, ProviderOk(<<>>), ProviderOk(<<UsdaFood(foodName)>>)}

OffOutcomes(foodName) == {ProviderFail, ProviderOk(<<>>), ProviderOk(<<OffProduct(toLowerCase(foodName))>>)}

\* the catch of each search returns an empty result set
searchUSDAFoods(outcome) == IF outcome.status = "ok" THEN outcome.items ELSE <<>>

searchOpenFoodFacts(outcome) == IF outcome.status = "ok" THEN outcome.items ELSE <<>>

\* variant of searchFoodNutrition that gives up when the USDA search has
\* no items
searchFoodNutritionUsdaOnly(usdaItems, offItems) ==
  IF usdaItems = <<>> THEN <<>> ELSE usdaItems

\* combinedItems: USDA first, then the OpenFoodFacts items whose lower-cased
\* name no USDA item has
searchFoodNutrition(usdaItems, offItems) ==
  LET Fresh(offItem) ==
        ~\E i \in 1..Len(usdaItems) :
            toLowerCase(usdaItems[i].name) = toLowerCase(offItem.name)
  IN usdaItems \o SelectSeq(offItems, Fresh)

ActionFail(msg) == [isSuccess |-> FALSE, message |-> msg]
ActionOk(data) == [isSuccess |-> TRUE, message |-> "ok", data |-> data]

\* getNutritionInfoAction of either module; items is what searchFoodNutrition
\* returned (not consulted when the action returns before the search)
getNutritionInfoAction(module, authed, foodName, items) ==
  IF module = "part_010"
  THEN IF ~authed THEN ActionFail("Unauthorized")
       ELSE IF Trim(foodName) = <<>> THEN ActionFail("Food name is required")
       ELSE IF items = <<>> THEN ActionOk(<<getFallbackNutrition(foodName)>>)
       ELSE ActionOk(items)
  ELSE IF foodName = <<>> THEN ActionFail("No food name provided")
       ELSE ActionOk(items)

\* variant of batchCallback in which a lookup without items starts the result
\* object anew
batchCallbackRestarting(module, res, name, authed, items) ==
  IF module = "part_010"
  THEN LET result == getNutritionInfoAction(module, authed, name, items) IN
       IF result.isSuccess /\ items # <<>>
       THEN SetProp(res, name, result.data[1])
       ELSE SetProp(<<>>, name, getFallbackNutrition(name))
  ELSE IF items # <<>> THEN SetProp(res, name, items[1]) ELSE <<>>

\* the per-name callback of batchNutritionLookupAction
batchCallback(module, res, name, authed, items) ==
  IF module = "part_010"
  THEN LET result == getNutritionInfoAction(module, authed, name, items) IN
       IF result.isSuccess /\ result.data # <<>>
       THEN SetProp(res, name, result.data[1])
       ELSE SetProp(res, name, getFallbackNutrition(name))
  ELSE IF items # <<>> THEN SetProp(res, name, items[1]) ELSE res

\* ------------------------------------------------ the resolver on its own
MaxFoods == 2

\* a food of the USDA answer: its description, and whether foodNutrients can
\* be walked (an array of objects) or makes the transformation throw
UsdaRecord(description, nutrientsOk) ==
  [description |-> description, nutrientsOk |-> nutrientsOk]

\* a product of the OpenFoodFacts answer: its product_name, and whether
\* serving_size is a string (or absent) or makes the transformation throw
OffRecord(product_name, servingOk) ==
  [product_name |-> product_name, servingOk |-> servingOk]

\* food.description || food.lowercaseDescription || "Unknown Food"; the catch
\* returns the default nutrition with confidence 0.5
transformUSDAFood(food) ==
  LET name == IF food.description = <<>> THEN <<"Unknown Food">> ELSE food.description
  IN IF food.nutrientsOk
     THEN UsdaFood(name)
     ELSE [UsdaFood(name) EXCEPT !.description = Undef,
                                 !.nutrition = DEFAULT_NUTRITION,
                                 !.confidence = 50]

\* product.product_name || product.generic_name || "Unknown Product"
transformOpenFoodFactsProduct(product) ==
  LET name == IF product.product_name = <<>> THEN <<"Unknown Product">>
              ELSE product.product_name
  IN IF product.servingOk
     THEN OffProduct(name)
     ELSE [OffProduct(name) EXCEPT !.description = Undef,
                                   !.nutrition = DEFAULT_NUTRITION,
                                   !.confidence = 50]

DataFail == [ok |-> FALSE, records |-> <<>>]
DataOk(records) == [ok |-> TRUE, records |-> records]

UsdaRecords ==
  {UsdaRecord(<<"Apple">>, TRUE), UsdaRecord(<<"Apple">>, FALSE),
   UsdaRecord(<<"Banana">>, TRUE)}

OffRecords ==
  {OffRecord(<<"apple">>, TRUE), OffRecord(<<"Banana">>, TRUE),
   OffRecord(<<"cider">>, FALSE)}

UsdaAnswers == {DataFail} \cup {DataOk(l) : l \in SeqsUpTo(UsdaRecords, MaxFoods)}

OffAnswers == {DataFail} \cup {DataOk(l) : l \in SeqsUpTo(OffRecords, MaxFoods)}

\* data.foods?.map(transformUSDAFood) || [] of a request that answered
usdaOutcome(data) ==
  IF data.ok
  THEN ProviderOk([i \in 1..Len(data.records) |-> transformUSDAFood(data.records[i])])
  ELSE ProviderFail

\* data.products?.map(transformOpenFoodFactsProduct) || []
offOutcome(data) ==
  IF data.ok
  THEN ProviderOk([i \in 1..Len(data.records) |->
                     transformOpenFoodFactsProduct(data.records[i])])
  ELSE ProviderFail

\* Array.prototype.sort with (b.confidence || 0) - (a.confidence || 0): the
\* items by descending confidence, equal ones in their former order
RECURSIVE sortFrom(_, _)
sortFrom(items, c) ==
  IF c < 0 THEN <<>>
  ELSE SelectSeq(items, LAMBDA item : item.confidence = c) \o sortFrom(items, c - 1)

sortByConfidence(items) == sortFrom(items, 100)

\* lines 393-429: both searches through Promise.allSettled, the items of the
\* two pushed one after the other, then sorted
searchFoodNutritionAllSettled(usdaItems, offItems) ==
  sortByConfidence(usdaItems \o offItems)

Unsettled == [settled |-> FALSE, items |-> <<>>]
Settled(items) == [settled |-> TRUE, items |-> items]

ResolverIdle ==
  /\ query = <<>>
  /\ searchVersion = "sequential"
  /\ lookupModule = "part_010"
  /\ usdaData = DataFail
  /\ offData = DataFail
  /\ usdaResults = Unsettled
  /\ offResults = Unsettled
  /\ searchResult = <<>>
  /\ lookupResult = NoResult
  /\ rpc = "off"

Queries == {<<"Apple">>, <<"Banana">>}

\* await searchUSDAFoods
ResolveUsda ==
  /\ rpc = "search"
  /\ ~usdaResults.settled
  /\ usdaResults' = Settled(searchUSDAFoods(usdaOutcome(usdaData)))
  /\ UNCHANGED <<content, pstage, parsed, visionResult, normalized, fvars,
                 query, searchVersion, lookupModule, usdaData, offData,
                 offResults, searchResult, lookupResult, rpc>>

\* await searchOpenFoodFacts: after the USDA search in the sequential
\* version, alongside it under Promise.allSettled
ResolveOff ==
  /\ rpc = "search"
  /\ ~offResults.settled
  /\ searchVersion = "sequential" => usdaResults.settled
  /\ offResults' = Settled(searchOpenFoodFacts(offOutcome(offData)))
  /\ UNCHANGED <<content, pstage, parsed, visionResult, normalized, fvars,
                 query, searchVersion, lookupModule, usdaData, offData,
                 usdaResults, searchResult, lookupResult, rpc>>

\* the combination of the two results and the return of searchFoodNutrition
ResolveCombine ==
  /\ rpc = "search"
  /\ usdaResults.settled
  /\ offResults.settled
  /\ searchResult' =
       IF searchVersion = "sequential"
       THEN searchFoodNutrition(usdaResults.items, offResults.items)
       ELSE searchFoodNutritionAllSettled(usdaResults.items, offResults.items)
  /\ rpc' = "lookup"
  /\ UNCHANGED <<content, pstage, parsed, visionResult, normalized, fvars,
                 query, searchVersion, lookupModule, usdaData, offData,
                 usdaResults, offResults, lookupResult>>

\* getNutritionInfoAction on the search result, for a signed-in caller
ResolveLookup ==
  /\ rpc = "lookup"
  /\ lookupResult' = getNutritionInfoAction(lookupModule, TRUE, query, searchResult)
  /\ rpc' = "done"
  /\ UNCHANGED <<content, pstage, parsed, visionResult, normalized, fvars,
                 query, searchVersion, lookupModule, usdaData, offData,
                 usdaResults, offResults, searchResult>>

\* ------------------------------------------------------- the log store
MaxEvents == 3
MaxTime == 1
MaxPosts == 1
MaxStore == 3

LogTraceIds == {"A", "B"}

\* the stage of a run that writes an entry: the vision call, the form, or a
\* provider call of the i-th lookup, <<"USDA", i>> and <<"OFF", i>>
VisionStage == <<"vision", 0>>
FormStage == <<"form", 0>>

\* a log entry; seq tells the entries apart (the n-th entry created), it is
\* no field of the program's entries.  A timestamp is the number of
\* milliseconds that new Date(timestamp).getTime() gives.
LogEntry(seq, id, timestamp, step, message, level, data) ==
  [seq |-> seq, traceId |-> id, timestamp |-> timestamp, step |-> step,
   message |-> message, level |-> level, data |-> data]

\* variant of addServerLog that writes over the last entry of the store
addServerLogInPlace(store, logEntry) ==
  IF store = <<>> THEN <<logEntry>>
  ELSE [store EXCEPT ![Len(store)] = logEntry]

\* variant of addServerLog that keeps the entries of the entry's trace only
addServerLogOwnTrace(store, logEntry) ==
  Append(SelectSeq(store, LAMBDA e : e.traceId = logEntry.traceId), logEntry)

\* server-logger.ts 58-65: serverLogs.push(logEntry)
addServerLog(store, logEntry) == Append(store, logEntry)

\* server-logger.ts 123-130 and logger.ts 276-278: filter by traceId
getLogsByTraceId(store, id) == SelectSeq(store, LAMBDA log : log.traceId = id)

\* Array.from(new Set(store.map(log => log.traceId))): the trace ids of the
\* store, each once, in the order of their first entries
RECURSIVE uniqueTraceIds(_)
uniqueTraceIds(store) ==
  IF store = <<>> THEN <<>>
  ELSE LET before == uniqueTraceIds(SubSeq(store, 1, Len(store) - 1))
           id == store[Len(store)].traceId
       IN IF \E i \in 1..Len(before) : before[i] = id
          THEN before
          ELSE Append(before, id)

\* variant of traceSummary that takes the first and the last entry of the
\* trace in the store for its first and last timestamp
traceSummaryStoreOrder(store, id) ==
  LET traceLogs == getLogsByTraceId(store, id)
  IN [traceId |-> id,
      firstTimestamp |-> traceLogs[1].timestamp,
      lastTimestamp |-> traceLogs[Len(traceLogs)].timestamp,
      hasErrors |-> \E i \in 1..Len(traceLogs) : traceLogs[i].level = "error",
      stepCount |-> Len(traceLogs)]

\* server-logger.ts 79-106: the summary of one trace; Math.min and Math.max
\* of the times of its entries
traceSummary(store, id) ==
  LET traceLogs == getLogsByTraceId(store, id)
      timestamps == {traceLogs[i].timestamp : i \in 1..Len(traceLogs)}
  IN [traceId |-> id,
      firstTimestamp |-> CHOOSE t \in timestamps : \A u \in timestamps : t <= u,
      lastTimestamp |-> CHOOSE t \in timestamps : \A u \in timestamps : t >= u,
      hasErrors |-> \E i \in 1..Len(traceLogs) : traceLogs[i].level = "error",
      stepCount |-> Len(traceLogs)]

\* Array.prototype.sort with a.timestamp - b.timestamp: ascending, equal
\* ones in their former order
RECURSIVE sortByTimestampFrom(_, _)
sortByTimestampFrom(entries, t) ==
  IF t > MaxTime THEN <<>>
  ELSE SelectSeq(entries, LAMBDA log : log.timestamp = t)
         \o sortByTimestampFrom(entries, t + 1)

\* api-logger.ts 299-316: the summary of one trace of the client store; the
\* entries of the trace are sorted and the first and the last one taken.
\* The entries with Error in the message or with a data.message are those
\* of logAPIError, whose message is API Error.
clientTraceSummary(store, id) ==
  LET traceLogs == getLogsByTraceId(store, id)
      sortedLogs == sortByTimestampFrom(traceLogs, 0)
  IN [traceId |-> id,
      firstTimestamp |-> sortedLogs[1].timestamp,
      lastTimestamp |-> sortedLogs[Len(sortedLogs)].timestamp,
      stepCount |-> Len(traceLogs),
      hasErrors |-> \E i \in 1..Len(traceLogs) : traceLogs[i].message = "API Error"]

\* Array.prototype.sort with b.lastTimestamp - a.lastTimestamp: the latest
\* first, equal ones in their former order
RECURSIVE sortByLastFrom(_, _)
sortByLastFrom(traces, t) ==
  IF t < 0 THEN <<>>
  ELSE SelectSeq(traces, LAMBDA trace : trace.lastTimestamp = t)
         \o sortByLastFrom(traces, t - 1)

\* server-logger.ts 71-116
getAllTraces(store) ==
  LET traceIds == uniqueTraceIds(store)
  IN sortByLastFrom([i \in 1..Len(traceIds) |-> traceSummary(store, traceIds[i])],
                    MaxTime)

\* api-logger.ts 294-323
getAllTracesClient(store) ==
  LET traceIds == uniqueTraceIds(store)
  IN sortByLastFrom([i \in 1..Len(traceIds) |-> clientTraceSummary(store, traceIds[i])],
                    MaxTime)

StoreIdle ==
  /\ serverLogs = <<>>
  /\ logs = <<>>
  /\ inflight = <<>>
  /\ now = 0
  /\ created = 0

\* time passes; it is counted from the first entry on
Tick ==
  /\ now < MaxTime
  /\ created > 0
  /\ now' = now + 1
  /\ UNCHANGED <<content, pstage, parsed, visionResult, normalized, rvars,
                 gvars, cvars, evars, serverLogs, logs, inflight, created>>

\* a server-side log function, api-logger.ts 93-116: the entry is built with
\* the current time and handed to addServerLog
ServerLogOf(id) ==
  /\ created < MaxEvents
  /\ Len(serverLogs) < MaxStore
  /\ created' = created + 1
  /\ serverLogs' = addServerLog(serverLogs,
       LogEntry(created + 1, id, now, "NUTRITION_API_REQUEST",
                "Nutrition API Request", "none", <<"USDA", 1>>))
  /\ UNCHANGED <<content, pstage, parsed, visionResult, normalized, rvars,
                 gvars, cvars, evars, logs, inflight, now>>

\* logFoodIdentification, logger.ts 235-268: the entry is pushed to the
\* client store and a POST of it is started; the level is the default one
ClientLogOf(id) ==
  /\ created < MaxEvents
  /\ Len(inflight) < MaxPosts
  /\ created' = created + 1
  /\ LET log == LogEntry(created + 1, id, now, "IMAGE_UPLOAD", "started", "info", FormStage)
     IN /\ logs' = Append(logs, log)
        /\ inflight' = Append(inflight, log)
  /\ UNCHANGED <<content, pstage, parsed, visionResult, normalized, rvars,
                 gvars, cvars, evars, serverLogs, now>>

\* POST /api/debug/logs, part_005 91-149: one of the requests under way
\* arrives; the entry has its required fields and is added
PostArrives(i) ==
  /\ i \in 1..Len(inflight)
  /\ Len(serverLogs) < MaxStore
  /\ serverLogs' = addServerLog(serverLogs, inflight[i])
  /\ inflight' = SubSeq(inflight, 1, i - 1) \o SubSeq(inflight, i + 1, Len(inflight))
  /\ UNCHANGED <<content, pstage, parsed, visionResult, normalized, rvars,
                 gvars, cvars, evars, logs, now, created>>

\* syncAllLogsToServer, logger.ts 105-137: a POST is started for every entry
\* of the client store
SyncAllLogs ==
  /\ logs # <<>>
  /\ Len(inflight) + Len(logs) <= MaxPosts
  /\ inflight' = inflight \o logs
  /\ UNCHANGED <<content, pstage, parsed, visionResult, normalized, rvars,
                 gvars, cvars, evars, serverLogs, logs, now, created>>

\* DELETE /api/debug/logs, part_005 154-186: serverLogs.length = 0
DeleteLogs ==
  /\ serverLogs # <<>>
  /\ serverLogs' = <<>>
  /\ UNCHANGED <<content, pstage, parsed, visionResult, normalized, rvars,
                 gvars, cvars, evars, logs, inflight, now, created>>

\* clearLogs, logger.ts 283-285: logs.length = 0
ClearLogs ==
  /\ logs # <<>>
  /\ logs' = <<>>
  /\ UNCHANGED <<content, pstage, parsed, visionResult, normalized, rvars,
                 gvars, cvars, evars, serverLogs, inflight, now, created>>

\* ------------------------------------------------------- the traced run
\* The entries that the server-side functions of one run add to the server
\* store under the run's trace id, in the order in which the calls of the
\* run let them be added.  Of the entries the form logs on the client only
\* the one for the assembled list is followed to the server store.
TracedId == "A"

\* the lists of candidate names the vision stage can end with
CandidateLists == {<<>>, <<"Apple">>, <<"Apple", "Banana">>}

\* what the model call does: it throws, answers without content, with text
\* that holds no JSON, with a JSON object inside a fence, or with the object
VisionAnswers == {"throws", "empty", "garbage", "fenced", "json"}

\* what a provider call does: it throws (no key, network, status, a body
\* that is no JSON), answers no record, or answers records
ProviderAnswers == {"throws", "empty", "items"}

\* api-logger.ts 13-41, 48-84, 93-115, 123-166, 173-203, 213-236: what each
\* log function puts in its entry; none sets a level.  The data of an entry
\* is kept as the stage of the run that wrote it.
logOpenAIVisionRequest(stage) ==
  [step |-> "OPENAI_VISION_REQUEST", message |-> "OpenAI Vision API Request",
   data |-> stage]
logOpenAIVisionResponse(stage) ==
  [step |-> "OPENAI_VISION_RESPONSE", message |-> "OpenAI Vision API Response",
   data |-> stage]
logNutritionAPIRequest(stage) ==
  [step |-> "NUTRITION_API_REQUEST", message |-> "Nutrition API Request",
   data |-> stage]
logNutritionAPIResponse(stage) ==
  [step |-> "NUTRITION_API_RESPONSE", message |-> "Nutrition API Response",
   data |-> stage]
logFinalFoodItem(stage) ==
  [step |-> "FINAL_FOOD_ITEM", message |-> "Final Food Item(s) Selected",
   data |-> stage]
logAPIError(step, stage) ==
  [step |-> step, message |-> "API Error", data |-> stage]

\* the calls of addServerLog of one step of the run, one after the other
RECURSIVE addServerLogs(_, _, _)
addServerLogs(store, calls, n) ==
  IF calls = <<>> THEN store
  ELSE addServerLogs(
         addServerLog(store,
           LogEntry(n + 1, TracedId, now, Head(calls).step, Head(calls).message,
                    "none", Head(calls).data)),
         Tail(calls), n + 1)

\* the log calls of one step
Logged(calls) ==
  /\ serverLogs' = addServerLogs(serverLogs, calls, created)
  /\ created' = created + Len(calls)

\* openai-vision.ts 147-280: the log calls after the model call
visionLogCalls(answer) ==
  CASE answer = "throws" ->
         <<logAPIError("OPENAI_VISION_RESPONSE", VisionStage)>>
    [] answer = "empty" ->
         <<logOpenAIVisionResponse(VisionStage),
           logAPIError("OPENAI_VISION_RESPONSE", VisionStage),
           logAPIError("OPENAI_VISION_RESPONSE", VisionStage)>>
    [] answer = "garbage" ->
         <<logOpenAIVisionResponse(VisionStage),
           logAPIError("OPENAI_VISION_RESPONSE", VisionStage),
           logAPIError("OPENAI_VISION_RESPONSE", VisionStage)>>
    [] answer = "fenced" ->
         <<logOpenAIVisionResponse(VisionStage),
           logAPIError("OPENAI_VISION_RESPONSE", VisionStage)>>
    [] OTHER -> <<logOpenAIVisionResponse(VisionStage)>>

\* variant of providerLogCalls whose catch logs nothing
providerLogCallsSilentCatch(stage, answer) ==
  CASE answer = "throws" -> <<>>
    [] answer = "empty" -> <<logNutritionAPIResponse(stage)>>
    [] OTHER -> <<logNutritionAPIResponse(stage), logFinalFoodItem(stage)>>

\* openai-vision2.ts 712-779 and 895-960: the log calls after the fetch of
\* searchUSDAFoods and of searchOpenFoodFacts
providerLogCalls(stage, answer) ==
  CASE answer = "throws" -> <<logAPIError("NUTRITION_API_RESPONSE", stage)>>
    [] answer = "empty" -> <<logNutritionAPIResponse(stage)>>
    [] OTHER -> <<logNutritionAPIResponse(stage), logFinalFoodItem(stage)>>

TracedIdle ==
  /\ tracedPc = "start"
  /\ visionAnswer = "none"
  /\ lookups = <<>>

\* processImageWithOpenAI, openai-vision.ts 106-126: the request is logged
\* and the model called
TracedVisionCall ==
  /\ tracedPc = "start"
  /\ Logged(<<logOpenAIVisionRequest(VisionStage)>>)
  /\ tracedPc' = "vision"
  /\ UNCHANGED <<content, pstage, parsed, visionResult, normalized, rvars,
                 gvars, cvars, logs, inflight, now, visionAnswer, lookups>>

\* openai-vision.ts 147-280: the model call returns or throws; with
\* candidates the form calls the batch action, which starts one lookup per
\* name (part_010 186-200)
TracedVisionAnswer ==
  /\ tracedPc = "vision"
  /\ \E answer \in VisionAnswers, names \in CandidateLists :
       /\ visionAnswer' = answer
       /\ Logged(visionLogCalls(answer))
       /\ IF answer \in {"fenced", "json"} /\ names # <<>>
          THEN /\ tracedPc' = "lookups"
               /\ lookups' = [i \in 1..Len(names) |->
                               [name |-> names[i], pc |-> "start",
                                usda |-> "none", off |-> "none"]]
          ELSE /\ tracedPc' = "done"
               /\ UNCHANGED lookups
  /\ UNCHANGED <<content, pstage, parsed, visionResult, normalized, rvars,
                 gvars, cvars, logs, inflight, now>>

\* searchUSDAFoods, openai-vision2.ts 639-711: the request is logged and the
\* provider called
LookupUsdaCall(i) ==
  /\ tracedPc = "lookups"
  /\ lookups[i].pc = "start"
  /\ Logged(<<logNutritionAPIRequest(<<"USDA", i>>)>>)
  /\ lookups' = [lookups EXCEPT ![i].pc = "usda"]
  /\ UNCHANGED <<content, pstage, parsed, visionResult, normalized, rvars,
                 gvars, cvars, logs, inflight, now, tracedPc, visionAnswer>>

\* searchUSDAFoods, openai-vision2.ts 712-779
LookupUsdaAnswer(i) ==
  /\ tracedPc = "lookups"
  /\ lookups[i].pc = "usda"
  /\ \E answer \in ProviderAnswers :
       /\ Logged(providerLogCalls(<<"USDA", i>>, answer))
       /\ lookups' = [lookups EXCEPT ![i].pc = "between", ![i].usda = answer]
  /\ UNCHANGED <<content, pstage, parsed, visionResult, normalized, rvars,
                 gvars, cvars, logs, inflight, now, tracedPc, visionAnswer>>

\* searchOpenFoodFacts, openai-vision2.ts 837-894
LookupOffCall(i) ==
  /\ tracedPc = "lookups"
  /\ lookups[i].pc = "between"
  /\ Logged(<<logNutritionAPIRequest(<<"OFF", i>>)>>)
  /\ lookups' = [lookups EXCEPT ![i].pc = "off"]
  /\ UNCHANGED <<content, pstage, parsed, visionResult, normalized, rvars,
                 gvars, cvars, logs, inflight, now, tracedPc, visionAnswer>>

\* searchOpenFoodFacts, openai-vision2.ts 895-960
LookupOffAnswer(i) ==
  /\ tracedPc = "lookups"
  /\ lookups[i].pc = "off"
  /\ \E answer \in ProviderAnswers :
       /\ Logged(providerLogCalls(<<"OFF", i>>, answer))
       /\ lookups' = [lookups EXCEPT ![i].pc = "done", ![i].off = answer]
  /\ UNCHANGED <<content, pstage, parsed, visionResult, normalized, rvars,
                 gvars, cvars, logs, inflight, now, tracedPc, visionAnswer>>

\* meal-log-form.tsx 337-351: the lookups are over, the form logs the
\* assembled list and the entry reaches the server store
TracedFinalItems ==
  /\ tracedPc = "lookups"
  /\ \A i \in 1..Len(lookups) : lookups[i].pc = "done"
  /\ Logged(<<logFinalFoodItem(FormStage)>>)
  /\ tracedPc' = "done"
  /\ UNCHANGED <<content, pstage, parsed, visionResult, normalized, rvars,
                 gvars, cvars, logs, inflight, now, visionAnswer, lookups>>

\* ---------------------------------------------------- the trace context
MaxRuns == 2
MaxTraceIds == 6

\* the three hooks named useFoodIdentificationLogger: logger.ts 152-185
\* keeps the id in sessionStorage, api-logger.ts 338-341 calls uuidv4() in
\* every render, api-logger.ts 495-497 memoises one id per mount
LoggerHooks == {"sessionStorage", "render", "mount"}

\* the form is mounted and has rendered, in a fresh browser session
TraceMounted ==
  /\ mounted = TRUE
  /\ traceId = 1
  /\ sessionStorage = IF loggerHook = "sessionStorage" THEN 1 ELSE 0
  /\ generated = 1
  /\ uploadTraceId = 0
  /\ runTraceIds = <<>>

TraceIdle == loggerHook = "sessionStorage" /\ TraceMounted

\* the hook when the form is mounted: useState("") and the mount effect of
\* logger.ts, a new id in the other two
MountForm ==
  /\ ~mounted
  /\ mounted' = TRUE
  /\ IF loggerHook = "sessionStorage" /\ sessionStorage # 0
     THEN /\ traceId' = sessionStorage
          /\ UNCHANGED <<sessionStorage, generated>>
     ELSE /\ generated < MaxTraceIds
          /\ generated' = generated + 1
          /\ traceId' = generated + 1
          /\ sessionStorage' = IF loggerHook = "sessionStorage"
                               THEN generated + 1 ELSE sessionStorage
  /\ UNCHANGED <<content, pstage, parsed, visionResult, normalized, rvars,
                 gvars, svars, evars, loggerHook, uploadTraceId, runTraceIds>>

\* the form is unmounted: its state and the hook state are gone
UnmountForm ==
  /\ mounted
  /\ mounted' = FALSE
  /\ traceId' = 0
  /\ uploadTraceId' = 0
  /\ UNCHANGED <<content, pstage, parsed, visionResult, normalized, rvars,
                 gvars, svars, evars, loggerHook, sessionStorage, generated, runTraceIds>>

\* the browser session ends and a new one begins with an empty sessionStorage
NewBrowserSession ==
  /\ ~mounted
  /\ sessionStorage # 0
  /\ sessionStorage' = 0
  /\ UNCHANGED <<content, pstage, parsed, visionResult, normalized, rvars,
                 gvars, svars, evars, loggerHook, mounted, traceId, generated,
                 uploadTraceId, runTraceIds>>

\* the form renders again after a state change: the hook of api-logger.ts
\* 338-341 makes a new id, the other two keep theirs
Rerender ==
  IF loggerHook = "render"
  THEN /\ generated < MaxTraceIds
       /\ generated' = generated + 1
       /\ traceId' = generated + 1
  ELSE UNCHANGED <<generated, traceId>>

\* handleImageUpload, lines 140-166: the upload event is logged with the
\* logger of the render the handler belongs to; the state changes render anew
UploadImage ==
  /\ mounted
  /\ uploadTraceId' = traceId
  /\ Rerender
  /\ UNCHANGED <<content, pstage, parsed, visionResult, normalized, rvars,
                 gvars, svars, evars, loggerHook, mounted, sessionStorage, runTraceIds>>

\* processImage, lines 282-347: the run logs with the logger of the render
\* the handler belongs to and hands logger.traceId to the server actions;
\* setIsProcessing renders anew
StartRun ==
  /\ mounted
  /\ uploadTraceId # 0
  /\ Len(runTraceIds) < MaxRuns
  /\ runTraceIds' = Append(runTraceIds, [upload |-> uploadTraceId, run |-> traceId])
  /\ Rerender
  /\ UNCHANGED <<content, pstage, parsed, visionResult, normalized, rvars,
                 gvars, svars, evars, loggerHook, mounted, sessionStorage, uploadTraceId>>

\* ------------------------------------------------------------ the form
MsgNull == "null"
MsgUploadFirst == "Please upload an image first"
MsgConvertFailed == "Failed to process the image. Please try again."
MsgUnexpectedFormat == "The response format was unexpected. Please try again."
MsgNoFood == "No food items detected. Please try a clearer image or add items manually."
MsgUnexpected == "An unexpected error occurred while processing the image. Please try again."

\* actions/detect-food.ts
detectFoodInImageAction(response) == processImageWithOpenAI(response)

\* detectFoodInImageAction(imageBase64, logger.traceId)
detectFoodInImageActionTraced(response, logOutcome) ==
  processImageWithOpenAITraced(response, logOutcome)

MsgNoFoodDetected == "No food items were detected in this image"

\* actions/ai/food-detection-actions.ts: the action that reports an empty
\* detection as a failure of its own
detectFoodInImageActionAi(response) ==
  LET result == processImageWithOpenAI(response) IN
  IF ~result.isSuccess THEN [isSuccess |-> FALSE, message |-> result.message]
  ELSE IF result.data.foodItems = <<>>
  THEN [isSuccess |-> FALSE, message |-> MsgNoFoodDetected]
  ELSE [isSuccess |-> TRUE, message |-> "Food items detected successfully",
        data |-> [foodItems |-> result.data.foodItems,
                  extractedText |-> result.data.extractedText]]

\* lines 327-335
DetectedItem(item) ==
  [name |-> item.name, calories |-> 0, protein |-> 0, carbs |-> 0, fat |-> 0,
   detectedViaAi |-> TRUE, confidence |-> item.confidence,
   source |-> Undef, sourceId |-> Undef, description |-> Undef]

OrUndefined(str) == IF str = "" THEN Undef ELSE str

\* lines 242-252
WithNutrition(item, nutritionData) ==
  [item EXCEPT !.calories = nutritionData.nutrition.calories,
               !.protein = nutritionData.nutrition.protein,
               !.carbs = nutritionData.nutrition.carbs,
               !.fat = nutritionData.nutrition.fat,
               !.source = nutritionData.source,
               !.sourceId = OrUndefined(nutritionData.sourceId),
               !.description = OrUndefined(nutritionData.description)]

HasEntry(data, item) == HasProp(data, item.name)

\* variant of AssembleItems that keeps only the items the map has an entry for
AssembleItemsFound(items, data) ==
  LET found == SelectSeq(items, LAMBDA item : HasEntry(data, item))
  IN [i \in 1..Len(found) |-> WithNutrition(found[i], PropOf(data, found[i].name))]

\* variant of AssembleItems that walks the entries of the map in their order
AssembleItemsByEntry(items, data) ==
  [i \in 1..Len(items) |->
     IF i <= Len(data)
     THEN WithNutrition([items[i] EXCEPT !.name = data[i].key], data[i].val)
     ELSE items[i]]

\* lines 238-256: items.map over response.data
AssembleItems(items, data) ==
  [i \in 1..Len(items) |->
     IF HasProp(data, items[i].name)
     THEN WithNutrition(items[i], PropOf(data, items[i].name))
     ELSE items[i]]

\* lines 177-208, given the response of getNutritionInfoAction
fetchNutritionForFoodItem(item, response) ==
  IF item.calories > 0 \/ item.protein > 0 \/ item.carbs > 0 \/ item.fat > 0 THEN item
  ELSE IF response.isSuccess /\ response.data # <<>>
  THEN [WithNutrition(item, response.data[1]) EXCEPT
          !.confidence = IF item.confidence # 0 THEN item.confidence
                         ELSE response.data[1].confidence]
  ELSE item

\* the model responses a run of the form may receive
CandItems ==
  {ItemObj(<<TStr(<<"Apple">>)>>, <<TNum(95)>>),
   ItemObj(<<TStr(<<"Banana">>)>>, <<>>)}

PipelineTexts ==
  {Doc(l, EmptyArray) : l \in SeqsUpTo(CandItems, MaxCand)}
    \cup {ScenarioA, ScenarioB,
          <<TFenceJson>> \o Doc(<<ItemObj(<<TStr(<<"Apple">>)>>, <<TNum(95)>>)>>, EmptyArray) \o <<TFence>>,
          <<LBrace>> \o Member(KFoodItems, <<TStr(<<"x">>)>>) \o <<RBrace>>,
          Doc(<<ItemObj(<<TStr(<<"Banana">>)>>, <<TNum(0)>>)>>, EmptyArray)}

ModelResponses == {ApiThrows, ApiContent(<<>>)} \cup {ApiContent(t) : t \in PipelineTexts}

NoTasks ==
  /\ mode = "none"
  /\ taskPc = <<>>
  /\ taskUsda = <<>>
  /\ taskOff = <<>>
  /\ results = <<>>
  /\ processed = <<>>
  /\ returnedBy = "none"

NoResponse == [throws |-> FALSE, pending |-> TRUE]

FormInit ==
  /\ nutritionActions \in {"part_010", "part_013"}
  /\ session \in BOOLEAN
  /\ imageFile = FALSE
  /\ imageBase64 = FALSE
  /\ currentStep = "Upload"
  /\ foodItems = <<>>
  /\ error = MsgNull
  /\ isProcessing = FALSE
  /\ fpc = "idle"
  /\ apiResponse = NoResponse
  /\ detectResult = NoResult
  /\ detectedItems = <<>>
  /\ NoTasks
  /\ resolverCalls = 0
  /\ batchCalls = 0
  /\ visionLog = "none"

tvars == <<mode, taskPc, taskUsda, taskOff, results, processed, returnedBy>>

\* the session of the signed-in user is ended or renewed by the auth provider
SessionChange ==
  /\ session' = ~session
  /\ UNCHANGED <<pvars, nutritionActions, imageFile, imageBase64, currentStep,
                 foodItems, error, isProcessing, fpc, apiResponse, detectResult,
                 detectedItems, tvars, resolverCalls, batchCalls>>

\* handleImageUpload: the file is set; the base64 conversion succeeds or fails
HandleImageUpload ==
  /\ currentStep = "Upload"
  /\ ~imageFile
  /\ imageFile' = TRUE
  /\ \E converted \in BOOLEAN :
       /\ imageBase64' = converted
       /\ error' = IF converted THEN MsgNull ELSE MsgConvertFailed
  /\ UNCHANGED <<pvars, nutritionActions, session, currentStep, foodItems,
                 isProcessing, fpc, apiResponse, detectResult, detectedItems,
                 tvars, resolverCalls, batchCalls>>

\* processImage, lines 282-296: up to the call of detectFoodInImageAction
ProcessImageStart ==
  /\ currentStep = "Upload"
  /\ imageFile
  /\ ~isProcessing
  /\ IF ~imageBase64
     THEN /\ error' = MsgUploadFirst
          /\ UNCHANGED <<isProcessing, fpc, apiResponse, detectResult,
                         detectedItems, tvars, resolverCalls, batchCalls,
                         visionLog>>
     ELSE /\ isProcessing' = TRUE
          /\ visionLog' = "none"
          /\ error' = MsgNull
          /\ fpc' = "vision"
          /\ apiResponse' = NoResponse
          /\ detectResult' = NoResult
          /\ detectedItems' = <<>>
          /\ mode' = "none"
          /\ taskPc' = <<>>
          /\ taskUsda' = <<>>
          /\ taskOff' = <<>>
          /\ results' = <<>>
          /\ processed' = <<>>
          /\ returnedBy' = "none"
          /\ resolverCalls' = 0
          /\ batchCalls' = 0
  /\ UNCHANGED <<qvars, nutritionActions, session, imageFile, imageBase64,
                 currentStep, foodItems>>

\* variant of processImageBranch without the check for an empty list
processImageBranchNoEmptyCheck(result) ==
  IF ~result.isSuccess THEN [lookup |-> FALSE, error |-> result.message]
  ELSE IF "foodItems" \notin DOMAIN result.data
  THEN [lookup |-> FALSE, error |-> MsgUnexpectedFormat]
  ELSE [lookup |-> TRUE, error |-> MsgNull]

\* processImage, lines 301-323: what the form does with the detection result
processImageBranch(result) ==
  IF ~result.isSuccess THEN [lookup |-> FALSE, error |-> result.message]
  ELSE IF "foodItems" \notin DOMAIN result.data
  THEN [lookup |-> FALSE, error |-> MsgUnexpectedFormat]
  ELSE IF result.data.foodItems = <<>> THEN [lookup |-> FALSE, error |-> MsgNoFood]
  ELSE [lookup |-> TRUE, error |-> MsgNull]

\* processImage, lines 296-344: detectFoodInImageAction returns
VisionReturn ==
  /\ fpc = "vision"
  /\ \E response \in ModelResponses, logOutcome \in LogOutcomes :
       LET result == detectFoodInImageActionTraced(response, logOutcome)
           branch == processImageBranch(result)
       IN /\ apiResponse' = response
          /\ visionLog' = logOutcome
          /\ detectResult' = result
          /\ IF branch.lookup
             THEN /\ detectedItems' = [i \in 1..Len(result.data.foodItems) |->
                                       DetectedItem(result.data.foodItems[i])]
                  /\ fpc' = "batchCall"
                  /\ UNCHANGED <<error, isProcessing>>
             ELSE /\ error' = branch.error
                  /\ isProcessing' = FALSE
                  /\ fpc' = "idle"
                  /\ UNCHANGED detectedItems
  /\ UNCHANGED <<qvars, nutritionActions, session, imageFile, imageBase64,
                 currentStep, foodItems, tvars, resolverCalls, batchCalls>>

\* processImage, lines 352-385: the call of the server action itself rejects
VisionCallRejects ==
  /\ fpc = "vision"
  /\ error' = MsgUnexpected
  /\ isProcessing' = FALSE
  /\ fpc' = "idle"
  /\ UNCHANGED <<pvars, nutritionActions, session, imageFile, imageBase64,
                 currentStep, foodItems, apiResponse, detectResult,
                 detectedItems, tvars, resolverCalls, batchCalls>>

FirstPc == IF nutritionActions = "part_010" THEN "auth" ELSE "usda"

\* variant of AllDone that is satisfied by the first lookup that ends
FirstDone == \E i \in 1..Len(taskPc) : taskPc[i] = "done"

AllDone == \A i \in 1..Len(taskPc) : taskPc[i] = "done"

\* processFoodItemsWithNutrition calls batchNutritionLookupAction, which
\* checks the session (part_010) and starts one lookup per name; on a failed
\* response the form starts one fetchNutritionForFoodItem per item
BatchInvoke ==
  /\ fpc = "batchCall"
  /\ batchCalls' = batchCalls + 1
  /\ results' = <<>>
  /\ processed' = detectedItems
  /\ taskPc' = [i \in 1..Len(detectedItems) |-> FirstPc]
  /\ taskUsda' = [i \in 1..Len(detectedItems) |-> ProviderPending]
  /\ taskOff' = [i \in 1..Len(detectedItems) |-> ProviderPending]
  /\ resolverCalls' = IF FirstPc = "usda" THEN resolverCalls + Len(detectedItems)
                      ELSE resolverCalls
  /\ IF (nutritionActions = "part_010" /\ ~session) \/ detectedItems = <<>>
     THEN mode' = "individual" /\ fpc' = "individual"
     ELSE mode' = "batch" /\ fpc' = "batch"
  /\ UNCHANGED <<pvars, nutritionActions, session, imageFile, imageBase64,
                 currentStep, foodItems, error, isProcessing, apiResponse,
                 detectResult, detectedItems, returnedBy>>

\* the effect of a finished lookup on the caller's collection
Finish(i, authed, items) ==
  /\ taskPc' = [taskPc EXCEPT ![i] = "done"]
  /\ IF mode = "batch"
     THEN /\ results' = batchCallback(nutritionActions, results, detectedItems[i].name, authed, items)
          /\ UNCHANGED processed
     ELSE /\ processed' = [processed EXCEPT ![i] =
               fetchNutritionForFoodItem(detectedItems[i],
                 getNutritionInfoAction(nutritionActions, authed, detectedItems[i].name, items))]
          /\ UNCHANGED results

Running == fpc \in {"batch", "individual"}

\* getNutritionInfoAction of part_010: await auth()
TaskAuth(i) ==
  /\ Running
  /\ taskPc[i] = "auth"
  /\ IF session
     THEN /\ taskPc' = [taskPc EXCEPT ![i] = "usda"]
          /\ resolverCalls' = resolverCalls + 1
          /\ UNCHANGED <<results, processed>>
     ELSE /\ Finish(i, FALSE, <<>>)
          /\ UNCHANGED resolverCalls
  /\ UNCHANGED <<pvars, nutritionActions, session, imageFile, imageBase64,
                 currentStep, foodItems, error, isProcessing, fpc, apiResponse,
                 detectResult, detectedItems, mode, taskUsda, taskOff,
                 returnedBy, batchCalls>>

\* searchFoodNutrition: await searchUSDAFoods
TaskUsda(i) ==
  /\ Running
  /\ taskPc[i] = "usda"
  /\ \E outcome \in UsdaOutcomes(detectedItems[i].name) :
       taskUsda' = [taskUsda EXCEPT ![i] = outcome]
  /\ taskPc' = [taskPc EXCEPT ![i] = "off"]
  /\ UNCHANGED <<pvars, nutritionActions, session, imageFile, imageBase64,
                 currentStep, foodItems, error, isProcessing, fpc, apiResponse,
                 detectResult, detectedItems, mode, taskOff, results, processed,
                 returnedBy, resolverCalls, batchCalls>>

\* searchFoodNutrition: await searchOpenFoodFacts, then the combination and
\* the rest of the caller's callback
TaskOff(i) ==
  /\ Running
  /\ taskPc[i] = "off"
  /\ \E outcome \in OffOutcomes(detectedItems[i].name) :
       /\ taskOff' = [taskOff EXCEPT ![i] = outcome]
       /\ Finish(i, TRUE, searchFoodNutrition(searchUSDAFoods(taskUsda[i]),
                                              searchOpenFoodFacts(outcome)))
  /\ UNCHANGED <<pvars, nutritionActions, session, imageFile, imageBase64,
                 currentStep, foodItems, error, isProcessing, fpc, apiResponse,
                 detectResult, detectedItems, mode, taskUsda, returnedBy,
                 resolverCalls, batchCalls>>

\* fetchNutritionForFoodItem, lines 209-216: the call of getNutritionInfoAction
\* rejects and the item is returned as it is
TaskCallRejects(i) ==
  /\ fpc = "individual"
  /\ taskPc[i] # "done"
  /\ taskPc' = [taskPc EXCEPT ![i] = "done"]
  /\ processed' = [processed EXCEPT ![i] = detectedItems[i]]
  /\ UNCHANGED <<pvars, nutritionActions, session, imageFile, imageBase64,
                 currentStep, foodItems, error, isProcessing, fpc, apiResponse,
                 detectResult, detectedItems, mode, taskUsda, taskOff, results,
                 returnedBy, resolverCalls, batchCalls>>

\* processImage, lines 346-351, with the items processFoodItemsWithNutrition returned
Deliver(itemsWithNutrition, by) ==
  /\ foodItems' = itemsWithNutrition
  /\ returnedBy' = by
  /\ currentStep' = "Review"
  /\ isProcessing' = FALSE
  /\ fpc' = "idle"
  /\ UNCHANGED <<pvars, nutritionActions, session, imageFile, imageBase64,
                 error, apiResponse, detectResult, detectedItems, mode, taskPc,
                 taskUsda, taskOff, results, processed, resolverCalls,
                 batchCalls>>

\* Promise.all of the batch resolves: the action returns the result object
BatchReturn ==
  /\ fpc = "batch"
  /\ AllDone
  /\ Deliver(AssembleItems(detectedItems, results), "batch")

\* processFoodItemsWithNutrition, lines 267-273: the batch call rejects
BatchCallRejects ==
  /\ fpc \in {"batchCall", "batch"}
  /\ Deliver(detectedItems, "catch")

\* Promise.all over fetchNutritionForFoodItem resolves
IndividualReturn ==
  /\ fpc = "individual"
  /\ AllDone
  /\ Deliver(processed, "individual")

\* saveMeal of a signed-in user succeeds
SaveMeal ==
  /\ currentStep = "Review"
  /\ session
  /\ foodItems # <<>>
  /\ currentStep' = "Complete"
  /\ UNCHANGED <<pvars, nutritionActions, session, imageFile, imageBase64,
                 foodItems, error, isProcessing, fpc, apiResponse, detectResult,
                 detectedItems, tvars, resolverCalls, batchCalls>>

\* resetForm; the locals of the finished run are gone with it
ResetForm ==
  /\ currentStep = "Complete"
  /\ imageFile' = FALSE
  /\ imageBase64' = FALSE
  /\ foodItems' = <<>>
  /\ error' = MsgNull
  /\ currentStep' = "Upload"
  /\ apiResponse' = NoResponse
  /\ detectResult' = NoResult
  /\ detectedItems' = <<>>
  /\ mode' = "none"
  /\ taskPc' = <<>>
  /\ taskUsda' = <<>>
  /\ taskOff' = <<>>
  /\ results' = <<>>
  /\ processed' = <<>>
  /\ returnedBy' = "none"
  /\ resolverCalls' = 0
  /\ batchCalls' = 0
  /\ visionLog' = "none"
  /\ UNCHANGED <<qvars, nutritionActions, session, isProcessing, fpc>>

Tasks == 1..Len(taskPc)

Init == ParserIdle /\ ResolverIdle /\ TraceIdle /\ StoreIdle /\ TracedIdle /\ FormInit

Next ==
  \/ SessionChange
  \/ HandleImageUpload
  \/ ProcessImageStart
  \/ VisionReturn
  \/ VisionCallRejects
  \/ BatchInvoke
  \/ \E i \in Tasks : TaskAuth(i)
  \/ \E i \in Tasks : TaskUsda(i)
  \/ \E i \in Tasks : TaskOff(i)
  \/ \E i \in Tasks : TaskCallRejects(i)
  \/ BatchReturn
  \/ BatchCallRejects
  \/ IndividualReturn
  \/ SaveMeal
  \/ ResetForm

Spec == Init /\ [][Next]_vars

\* ------------------------------------------------ the parser on its own
FormIdle ==
  /\ nutritionActions = "part_010"
  /\ session = TRUE
  /\ imageFile = FALSE
  /\ imageBase64 = FALSE
  /\ currentStep = "Upload"
  /\ foodItems = <<>>
  /\ error = MsgNull
  /\ isProcessing = FALSE
  /\ fpc = "idle"
  /\ apiResponse = NoResponse
  /\ detectResult = NoResult
  /\ detectedItems = <<>>
  /\ NoTasks
  /\ resolverCalls = 0
  /\ batchCalls = 0
  /\ visionLog = "none"

InitParse ==
  /\ content \in ResponseTexts
  /\ pstage = "input"
  /\ parsed = JUndefined
  /\ visionResult = NoResult
  /\ normalized = NoResult
  /\ ResolverIdle
  /\ StoreIdle
  /\ TracedIdle
  /\ TraceIdle
  /\ FormIdle

NextParse ==
  \/ DirectParseStep
  \/ ExtractStep
  \/ NormalizeStep
  \/ NormalizeResultStep

SpecParse == InitParse /\ [][NextParse]_vars

InitResolve ==
  /\ ParserIdle
  /\ TraceIdle
  /\ StoreIdle
  /\ TracedIdle
  /\ FormIdle
  /\ query \in Queries
  /\ searchVersion \in {"sequential", "allSettled"}
  /\ lookupModule \in {"part_010", "part_013"}
  /\ usdaData \in UsdaAnswers
  /\ offData \in OffAnswers
  /\ usdaResults = Unsettled
  /\ offResults = Unsettled
  /\ searchResult = <<>>
  /\ lookupResult = NoResult
  /\ rpc = "search"

NextResolve ==
  \/ ResolveUsda
  \/ ResolveOff
  \/ ResolveCombine
  \/ ResolveLookup

SpecResolve == InitResolve /\ [][NextResolve]_vars

InitTrace ==
  /\ ParserIdle
  /\ ResolverIdle
  /\ StoreIdle
  /\ TracedIdle
  /\ FormIdle
  /\ loggerHook \in LoggerHooks
  /\ TraceMounted

NextTrace ==
  \/ MountForm
  \/ UnmountForm
  \/ NewBrowserSession
  \/ UploadImage
  \/ StartRun

SpecTrace == InitTrace /\ [][NextTrace]_vars

InitStore == ParserIdle /\ ResolverIdle /\ FormIdle /\ TraceIdle /\ StoreIdle /\ TracedIdle

NextStore ==
  \/ Tick
  \/ \E id \in LogTraceIds : ServerLogOf(id)
  \/ \E id \in LogTraceIds : ClientLogOf(id)
  \/ \E i \in 1..Len(inflight) : PostArrives(i)
  \/ SyncAllLogs
  \/ DeleteLogs
  \/ ClearLogs

SpecStore == InitStore /\ [][NextStore]_vars

InitTraced == ParserIdle /\ ResolverIdle /\ FormIdle /\ TraceIdle /\ StoreIdle /\ TracedIdle

NextTraced ==
  \/ TracedVisionCall
  \/ TracedVisionAnswer
  \/ \E i \in 1..Len(lookups) : LookupUsdaCall(i)
  \/ \E i \in 1..Len(lookups) : LookupUsdaAnswer(i)
  \/ \E i \in 1..Len(lookups) : LookupOffCall(i)
  \/ \E i \in 1..Len(lookups) : LookupOffAnswer(i)
  \/ TracedFinalItems

SpecTraced == InitTraced /\ [][NextTraced]_vars

\* ------------------------------------------------------------ properties
Candidates == detectResult.data.foodItems

NamesOf(list) == {list[i].name : i \in 1..Len(list)}

CountOf(list, nm) == Cardinality({i \in 1..Len(list) : list[i].name = nm})

\* processImage is over and the detection had succeeded with candidates
RunDelivered ==
  /\ fpc = "idle"
  /\ detectResult.isSuccess
  /\ detectResult.data.foodItems # <<>>

\* C1: a run whose vision call succeeded with n >= 1 candidates ends with a
\* list of exactly n items, every name as often in the list as among the
\* candidates, whichever provider calls, lookups or batch calls failed.
C1_OneItemPerCandidate ==
  RunDelivered =>
    /\ currentStep \in {"Review", "Complete"}
    /\ Len(foodItems) = Len(Candidates)
    /\ \A i \in 1..Len(foodItems) : foodItems[i].detectedViaAi
    /\ \A nm \in NamesOf(Candidates) \cup NamesOf(foodItems) :
         CountOf(foodItems, nm) = CountOf(Candidates, nm)

\* two items delivered by the batch although both providers failed for one
C1_Witness ==
  /\ currentStep = "Review"
  /\ returnedBy = "batch"
  /\ Len(detectResult.data.foodItems) = 2
  /\ Len(foodItems) = 2
  /\ \E i \in 1..Len(taskPc) :
       taskUsda[i].status = "fail" /\ taskOff[i].status = "fail"

\* C2: when all lookups of a batch are over, the result object holds exactly
\* one entry per distinct input name, also when the providers gave nothing.
C2_OneEntryPerName ==
  (fpc = "batch" /\ AllDone) =>
    /\ {results[k].key : k \in 1..Len(results)} = NamesOf(detectedItems)
    /\ Len(results) = Cardinality(NamesOf(detectedItems))

\* both providers were asked for every occurrence of nm and gave no item
NoProviderItems(nm) ==
  \A j \in 1..Len(detectedItems) :
    detectedItems[j].name = nm =>
      /\ taskUsda[j].status # "pending"
      /\ taskOff[j].status # "pending"
      /\ searchUSDAFoods(taskUsda[j]) = <<>>
      /\ searchOpenFoodFacts(taskOff[j]) = <<>>

\* C3: a name for which both providers gave no item is resolved to a row with
\* that name, source "default", zero macros and confidence 0, and the final
\* item of the candidate carries that row.
C3_DefaultRow ==
  (RunDelivered /\ returnedBy = "batch") =>
    \A i \in 1..Len(detectedItems) :
      NoProviderItems(detectedItems[i].name) =>
        /\ HasProp(results, detectedItems[i].name)
        /\ LET row == PropOf(results, detectedItems[i].name) IN
             /\ row.name = detectedItems[i].name
             /\ row.source = "default"
             /\ row.nutrition = [calories |-> 0, protein |-> 0, carbs |-> 0, fat |-> 0]
             /\ row.confidence = 0
        /\ foodItems[i].source = "default"
        /\ foodItems[i].calories = 0 /\ foodItems[i].protein = 0
        /\ foodItems[i].carbs = 0 /\ foodItems[i].fat = 0

\* C4: item i of the final list is candidate i, and the provider data it
\* carries was found for its own name, in whatever order the lookups ended.
C4_DetectionOrder ==
  RunDelivered =>
    /\ Len(foodItems) = Len(Candidates)
    /\ \A i \in 1..Len(foodItems) :
         /\ foodItems[i].name = Candidates[i].name
         /\ foodItems[i].source = "USDA" =>
              \E j \in 1..Len(detectedItems) :
                /\ detectedItems[j].name = Candidates[i].name
                /\ searchUSDAFoods(taskUsda[j]) # <<>>
         /\ foodItems[i].source = "OpenFoodFacts" =>
              \E j \in 1..Len(detectedItems) :
                /\ detectedItems[j].name = Candidates[i].name
                /\ searchOpenFoodFacts(taskOff[j]) # <<>>

\* the lookup of the second candidate ended before that of the first
C4_Witness ==
  /\ currentStep = "Review"
  /\ returnedBy = "batch"
  /\ Len(results) = 2
  /\ results[1].key = detectedItems[2].name
  /\ results[2].key = detectedItems[1].name
  /\ foodItems[1].name = detectedItems[1].name
  /\ foodItems[1].source = "USDA"
  /\ foodItems[2].source = "OpenFoodFacts"

\* the parser has returned
ParserReturned == pstage \in {"done", "normalized"}

\* C5: whatever non-empty text the model answers, the parser returns a
\* successful result whose extractedText is a list, and so does the earlier
\* parser.
C5_TextNeverFails ==
  (ParserReturned /\ content # <<>>) =>
    /\ visionResult.isSuccess
    /\ visionResult.data.extractedText.t = "array"
    /\ processImageWithOpenAIPart015(ApiContent(content)).isSuccess

\* C6: prose followed by a valid object with one or more items is parsed to
\* what the object alone is parsed to.
C6_ProseThenObject ==
  (ParserReturned /\ Len(content) > 1 /\ Head(content) = TWord
     /\ JSONParse(Tail(content)).ok) =>
    LET alone == NormalizeParsed(JSONParse(Tail(content)).v) IN
    (alone.isSuccess /\ alone.data.foodItems # <<>>) => visionResult = alone

\* the items of the parsed response as the model wrote them
RawItems ==
  LET fi == GetProp(parsed, KFoodItems) IN IF fi.t = "array" THEN fi.a ELSE <<>>

\* c is the confidence the raw item raw is to have after normalization
ClampedFrom(raw, c) ==
  LET v == GetProp(raw, KConfidence) IN
  IF v.t # "number" THEN c = 0
  ELSE IF v.n < 0 THEN c = 0
  ELSE IF v.n > 100 THEN c = 100
  ELSE c = v.n

WellFormedItems(list) ==
  \A i \in 1..Len(list) :
    /\ list[i].name # <<>>
    /\ list[i].confidence \in 0..100

\* C7: every item of the parser's output has a non-empty name and a
\* confidence within [0,1] that is the clamped confidence of a raw item of
\* that name, 0 when that was missing or no number; the same bounds hold
\* after normalizeProcessingResult.
C7_NormalizedItems ==
  /\ (ParserReturned /\ visionResult.isSuccess) =>
       /\ WellFormedItems(visionResult.data.foodItems)
       /\ \A i \in 1..Len(visionResult.data.foodItems) :
            \E k \in 1..Len(RawItems) :
              /\ GetProp(RawItems[k], KName) = JStr(visionResult.data.foodItems[i].name)
              /\ ClampedFrom(RawItems[k], visionResult.data.foodItems[i].confidence)
  /\ (pstage = "normalized" /\ normalized.isSuccess) =>
       WellFormedItems(normalized.data.foodItems)

\* a confidence above 1 and a confidence that is no number, both normalized
C7_Witness ==
  /\ pstage = "normalized"
  /\ visionResult.isSuccess
  /\ Len(RawItems) = 2
  /\ GetProp(RawItems[1], KConfidence) = JNum(150)
  /\ GetProp(RawItems[2], KConfidence).t = "string"
  /\ visionResult.data.foodItems =
       <<[name |-> <<"Apple">>, confidence |-> 100],
         [name |-> <<"Apple">>, confidence |-> 0]>>

\* C8: every name the vision stage returns is trimmed and not empty.
C8_NamesTrimmed ==
  (ParserReturned /\ visionResult.isSuccess) =>
    \A i \in 1..Len(visionResult.data.foodItems) :
      /\ visionResult.data.foodItems[i].name # <<>>
      /\ Trim(visionResult.data.foodItems[i].name) = visionResult.data.foodItems[i].name

\* the model call of this run threw or answered without content
VisionCallFailed ==
  /\ ~apiResponse.pending
  /\ (apiResponse.throws \/ apiResponse.content = <<>>)

NoLookupNoItems ==
  /\ fpc = "idle"
  /\ ~isProcessing
  /\ currentStep = "Upload"
  /\ foodItems = <<>>
  /\ detectedItems = <<>>
  /\ taskPc = <<>>
  /\ batchCalls = 0
  /\ resolverCalls = 0

\* C9: when the model call fails, or the call of the server action itself
\* rejects, the run is over with an error that is the failure's message, no
\* lookup was started, no item is stored and the form is at the upload step.
C9_VisionFailedIsTerminal ==
  /\ VisionCallFailed =>
       /\ NoLookupNoItems
       /\ ~detectResult.isSuccess
       /\ error = detectResult.message
       /\ error \notin {MsgNull, MsgNoFood}
  /\ error = MsgUnexpected => NoLookupNoItems

C9_Witness ==
  /\ apiResponse = ApiThrows
  /\ fpc = "idle"
  /\ error = "Failed to process image"
  /\ currentStep = "Upload"

\* the detection succeeded with an empty list and processImage is over
ZeroCandidates ==
  /\ fpc = "idle"
  /\ detectResult.isSuccess
  /\ detectResult.data.foodItems = <<>>

\* C10: a successful detection without candidates ends the run with the
\* no-food error and without any lookup; a failed vision call never shows
\* that error, with either detection action.
C10_NoFoodDetected ==
  /\ ZeroCandidates =>
       /\ NoLookupNoItems
       /\ error = MsgNoFood
       /\ detectFoodInImageActionAi(apiResponse).message = MsgNoFoodDetected
  /\ VisionCallFailed =>
       /\ error \notin {MsgNoFood, MsgNoFoodDetected}
       /\ detectFoodInImageActionAi(apiResponse).message \notin {MsgNoFood, MsgNoFoodDetected}

\* the text "no json here" was answered
C10_Witness ==
  /\ ZeroCandidates
  /\ apiResponse = ApiContent(ScenarioB)
  /\ error = MsgNoFood

\* every lookup of the batch has called both providers
AllResolved ==
  \A j \in 1..Len(taskPc) :
    taskUsda[j].status # "pending" /\ taskOff[j].status # "pending"

\* C11: when the lookups of a batch are over, the resolver was invoked once
\* per distinct name of the batch and every key of the result object is one
\* of the names.
C11_OncePerDistinctName ==
  (fpc = "batch" /\ AllDone /\ AllResolved) =>
    /\ resolverCalls = Cardinality(NamesOf(detectedItems))
    /\ \A k \in 1..Len(results) : results[k].key \in NamesOf(detectedItems)

\* the next step of lookup i
TaskStep(i) == TaskAuth(i) \/ TaskUsda(i) \/ TaskOff(i)

\* lookup i is the only lookup of the batch for its name
OnlyLookupOfName(i) ==
  \A j \in 1..Len(detectedItems) :
    detectedItems[j].name = detectedItems[i].name => j = i

\* C12: in a running batch every unfinished lookup can take its next step
\* whatever the other lookups do, and the entry of a finished lookup is the
\* one its own providers gave (USDA first, then OpenFoodFacts), whether the
\* other lookups failed, ended or are still open.
C12_LookupsIndependent ==
  fpc = "batch" =>
    \A i \in 1..Len(taskPc) :
      /\ taskPc[i] # "done" => ENABLED TaskStep(i)
      /\ (taskPc[i] = "done" /\ OnlyLookupOfName(i)) =>
           /\ searchUSDAFoods(taskUsda[i]) # <<>> =>
                /\ HasProp(results, detectedItems[i].name)
                /\ PropOf(results, detectedItems[i].name).source = "USDA"
           /\ (searchUSDAFoods(taskUsda[i]) = <<>>
                 /\ searchOpenFoodFacts(taskOff[i]) # <<>>) =>
                /\ HasProp(results, detectedItems[i].name)
                /\ PropOf(results, detectedItems[i].name).source = "OpenFoodFacts"
           /\ (searchUSDAFoods(taskUsda[i]) = <<>>
                 /\ searchOpenFoodFacts(taskOff[i]) = <<>>) =>
                (HasProp(results, detectedItems[i].name) =>
                   PropOf(results, detectedItems[i].name).source = "default")

\* one lookup has ended with its USDA row while the other, whose USDA call
\* failed, has not ended
C12_Witness ==
  /\ fpc = "batch"
  /\ \E i, j \in 1..Len(taskPc) :
       /\ taskPc[i] = "off"
       /\ taskUsda[i].status = "fail"
       /\ taskPc[j] = "done"
       /\ HasProp(results, detectedItems[j].name)
       /\ PropOf(results, detectedItems[j].name).source = "USDA"

\* C13: once the batch lookup (or the Promise.all over the individual
\* lookups) has returned, every lookup it started, one per name given, has
\* ended, with or without items.
C13_ReturnsAfterAll ==
  returnedBy \in {"batch", "individual"} =>
    /\ Len(taskPc) = Len(detectedItems)
    /\ \A i \in 1..Len(detectedItems) : taskPc[i] = "done"

\* a batch has returned after one lookup found a USDA row and the other
\* found nothing at either provider
C13_Witness ==
  /\ returnedBy = "batch"
  /\ \E i, j \in 1..Len(taskPc) :
       /\ searchUSDAFoods(taskUsda[i]) # <<>>
       /\ taskUsda[j].status = "fail"
       /\ taskOff[j].status = "fail"
       /\ taskPc[i] = "done"
       /\ taskPc[j] = "done"

\* ------------------------------------------------------------- progress
\* The steps the program takes by itself are taken eventually.  The answer
\* of the model call and of a provider call is awaited without a timeout,
\* so no fairness is stated for VisionReturn, TaskUsda and TaskOff.
ProgramSteps ==
  \/ BatchInvoke
  \/ \E i \in Tasks : TaskAuth(i)
  \/ BatchReturn
  \/ IndividualReturn

SpecLive == Init /\ [][Next]_vars /\ WF_vars(ProgramSteps)

\* C14: every run of processImage that has started is eventually over.
C14_RunTerminates == (fpc # "idle") ~> (fpc = "idle")

\* ------------------------------------------------------------------ C15
ItemCount(list, x) == Cardinality({i \in 1..Len(list) : list[i] = x})

SameItems(a, b) ==
  /\ Len(a) = Len(b)
  /\ \A i \in 1..Len(a) : ItemCount(a, a[i]) = ItemCount(b, a[i])

ResolverReturned == rpc = "done"

UsdaOnlyFailed == ~usdaData.ok /\ offData.ok

OffOnlyFailed == usdaData.ok /\ ~offData.ok

\* C15: when exactly one provider fails for a name, the lookup still
\* succeeds; it returns the items of the other provider when that one has
\* any, and it returns the default record only if the other provider has no
\* items either.
C15_OneProviderFails ==
  (ResolverReturned /\ (UsdaOnlyFailed \/ OffOnlyFailed)) =>
    LET other == IF UsdaOnlyFailed THEN offOutcome(offData).items
                 ELSE usdaOutcome(usdaData).items
    IN /\ lookupResult.isSuccess
       /\ other # <<>> => SameItems(lookupResult.data, other)
       /\ (\E i \in 1..Len(lookupResult.data) : lookupResult.data[i].source = "default")
            => other = <<>>

C15_Witness ==
  /\ ResolverReturned
  /\ UsdaOnlyFailed
  /\ Len(offData.records) = 2
  /\ lookupResult.isSuccess
  /\ lookupResult.data = offOutcome(offData).items

\* ------------------------------------------------------------------ C16
SearchReturned == rpc \in {"lookup", "done"}

ProviderItems == usdaResults.items \o offResults.items

\* C16: when a provider returned items, the first item of the result of
\* searchFoodNutrition has the greatest confidence of all the items the two
\* providers returned.
C16_BestMatchMaxConfidence ==
  (SearchReturned /\ ProviderItems # <<>>) =>
    /\ searchResult # <<>>
    /\ \A i \in 1..Len(ProviderItems) :
         searchResult[1].confidence >= ProviderItems[i].confidence

\* ------------------------------------------------------------------ C17
SameName(a, b) == toLowerCase(a.name) = toLowerCase(b.name)

\* C17: when the two providers both return an item of one name (compared
\* without regard to case), the result of searchFoodNutrition holds the USDA
\* record of that name and no OpenFoodFacts record of that name.
C17_UsdaRecordKept ==
  SearchReturned =>
    \A i \in 1..Len(usdaResults.items) : \A j \in 1..Len(offResults.items) :
      SameName(usdaResults.items[i], offResults.items[j]) =>
        /\ \E k \in 1..Len(searchResult) : searchResult[k] = usdaResults.items[i]
        /\ ~\E k \in 1..Len(searchResult) :
              /\ searchResult[k].source = "OpenFoodFacts"
              /\ SameName(searchResult[k], usdaResults.items[i])

\* ------------------------------------------------------------------ C18
\* the candidates as the model wrote them, before ensureFoodItem
AiCandidates ==
  IF apiResponse.pending \/ apiResponse.throws THEN <<>>
  ELSE LET r == JSONParse(apiResponse.content) IN
       IF ~r.ok THEN <<>>
       ELSE LET fi == GetProp(r.v, KFoodItems) IN
            IF fi.t = "array" THEN fi.a ELSE <<>>

\* C18: the item made from a candidate to which the model gave a confidence
\* (0 included) carries that confidence at the end of the run.
C18_AiConfidenceKept ==
  (RunDelivered /\ Len(AiCandidates) = Len(foodItems)) =>
    \A i \in 1..Len(foodItems) :
      LET c == GetProp(AiCandidates[i], KConfidence) IN
      c.t = "number" => foodItems[i].confidence = c.n

\* ------------------------------------------------------------------ C19
VisionCallReturned == fpc # "vision" /\ ~apiResponse.pending

\* C19: whether or not a log call of the run failed, the detection result of
\* the run is the one the model answer yields when every log call succeeds.
C19_LoggingFailureHarmless ==
  VisionCallReturned => detectResult = detectFoodInImageAction(apiResponse)

\* ------------------------------------------------------------------ C20
\* C20: no two runs hand on the same trace id, and the events of one run,
\* from the upload of its image on, are logged under one id.
C20_RunsHaveDistinctTraceIds ==
  /\ \A i, j \in 1..Len(runTraceIds) :
       i # j => runTraceIds[i].run # runTraceIds[j].run
  /\ \A i \in 1..Len(runTraceIds) : runTraceIds[i].upload = runTraceIds[i].run

\* an entry of trace id is added to the server store in this step
AppendStep(id) ==
  \/ ServerLogOf(id)
  \/ \E i \in 1..Len(inflight) : inflight[i].traceId = id /\ PostArrives(i)

\* the entries of trace id in the store after the step are those before it
\* with one entry of that trace behind them
OneMoreOf(before, after, id) ==
  \E i \in 1..Len(after) :
    /\ after[i].traceId = id
    /\ getLogsByTraceId(after, id) = Append(getLogsByTraceId(before, id), after[i])

\* C21: adding an entry with trace id B leaves the entries that
\* getLogsByTraceId returns for every other trace id as they were, and puts
\* exactly the new entry behind those of B, so that at every time
\* getLogsByTraceId(A) is all and only the entries added with trace id A, in
\* the server store and in the client store, whatever the order in which the
\* entries of several runs arrive.
C21_TraceIsolation ==
  [][\A b \in LogTraceIds :
       /\ AppendStep(b) =>
            /\ OneMoreOf(serverLogs, serverLogs', b)
            /\ \A a \in LogTraceIds \ {b} :
                 getLogsByTraceId(serverLogs', a) = getLogsByTraceId(serverLogs, a)
       /\ ClientLogOf(b) =>
            /\ OneMoreOf(logs, logs', b)
            /\ \A a \in LogTraceIds \ {b} :
                 getLogsByTraceId(logs', a) = getLogsByTraceId(logs, a)]_vars

\* entries of trace A, then B, then A again in the server store
C21_Witness ==
  /\ Len(serverLogs) >= 3
  /\ serverLogs[1].traceId = "A"
  /\ serverLogs[2].traceId = "B"
  /\ serverLogs[3].traceId = "A"
  /\ serverLogs[1].seq # serverLogs[3].seq

\* GET /api/debug/logs?traceId=..., part_005 47-59: the entries that
\* getLogsByTraceId returns, as they come
GET(store, id) == getLogsByTraceId(store, id)

\* the entries are in ascending order of timestamp
Ascending(entries) ==
  \A i, j \in 1..Len(entries) : i < j => entries[i].timestamp <= entries[j].timestamp

\* C22: the entries returned for a trace id by getLogsByTraceId and by the
\* GET route are in ascending order of timestamp, also when the entries were
\* added in another order than that of their timestamps.
C22_ReturnedInTimeOrder ==
  \A id \in LogTraceIds :
    /\ Ascending(getLogsByTraceId(serverLogs, id))
    /\ Ascending(GET(serverLogs, id))

\* the places of the entries of trace id in the store
PlacesOf(store, id) == {i \in 1..Len(store) : store[i].traceId = id}

\* the summaries are what the claim says of the store: one for each trace id
\* that has an entry and none else, first and last timestamp the least and
\* the greatest of the trace, stepCount the number of its entries, and the
\* summaries in descending order of lastTimestamp
SummariesOf(traces, store) ==
  /\ \A id \in LogTraceIds :
       Cardinality({i \in 1..Len(traces) : traces[i].traceId = id})
         = IF PlacesOf(store, id) = {} THEN 0 ELSE 1
  /\ \A i \in 1..Len(traces) :
       LET places == PlacesOf(store, traces[i].traceId)
       IN /\ \E p \in places : store[p].timestamp = traces[i].firstTimestamp
          /\ \A p \in places : store[p].timestamp >= traces[i].firstTimestamp
          /\ \E p \in places : store[p].timestamp = traces[i].lastTimestamp
          /\ \A p \in places : store[p].timestamp <= traces[i].lastTimestamp
          /\ traces[i].stepCount = Cardinality(places)
  /\ \A i, j \in 1..Len(traces) :
       i < j => traces[i].lastTimestamp >= traces[j].lastTimestamp

Added(logEntry) == serverLogs' = serverLogs \o <<logEntry>>

\* C25: additions that interleave, as those of nutrition lookups running in
\* parallel do, lose no entry: each call of addServerLog leaves every entry
\* that was in the store in its place and as it was, and puts the entry it
\* was given, whole, behind them; so k calls add exactly their k entries.
C25_NoLostWrites ==
  [][/\ \A id \in LogTraceIds :
          ServerLogOf(id) =>
            Added(LogEntry(created + 1, id, now, "NUTRITION_API_REQUEST",
                           "Nutrition API Request", "none", <<"USDA", 1>>))
     /\ \A i \in 1..Len(inflight) : PostArrives(i) => Added(inflight[i])]_vars

\* three entries were created, two of them at the same time, and the three
\* are in the server store
C25_Witness ==
  /\ created = 3
  /\ Len(serverLogs) = 3
  /\ \A i, j \in 1..3 : i # j => serverLogs[i].seq # serverLogs[j].seq
  /\ \E i, j \in 1..3 : i # j /\ serverLogs[i].timestamp = serverLogs[j].timestamp

\* every entry of the store before the step is in its place, as it was,
\* after the step
Kept(before, after) ==
  /\ Len(after) >= Len(before)
  /\ SubSeq(after, 1, Len(before)) = before

\* C26: the log store only grows: an entry that has been added stays in the
\* store, unchanged, through every operation of the logger and of the debug
\* log route.
C26_AppendOnly ==
  [][Kept(serverLogs, serverLogs') /\ Kept(logs, logs')]_vars

\* C30: forwarding the client entries to the server store is idempotent:
\* whatever calls of logFoodIdentification and of syncAllLogsToServer were
\* made, the server store holds no entry twice, so that the stepCount of a
\* trace is the number of entries logged for it.
C30_ForwardedOnce ==
  /\ \A i, j \in 1..Len(serverLogs) :
       i # j => serverLogs[i].seq # serverLogs[j].seq
  /\ \A id \in LogTraceIds :
       PlacesOf(serverLogs, id) # {} =>
         traceSummary(serverLogs, id).stepCount
           = Cardinality({serverLogs[p].seq : p \in PlacesOf(serverLogs, id)})

\* the stage of the run of processImage: the image is uploaded and no run is
\* under way, the vision call is awaited, the vision call has returned with
\* candidates, the lookups are awaited
RunStage ==
  CASE fpc = "vision" -> "VisionPending"
    [] fpc = "batchCall" -> "VisionDone"
    [] fpc \in {"batch", "individual"} -> "NutritionPending"
    [] OTHER -> "Idle"

\* the steps between stages that the claim allows; a run ends at Idle, with
\* an error (VisionFailed) or with its result published (Complete)
StageSteps ==
  {<<"Idle", "VisionPending">>, <<"VisionPending", "VisionDone">>,
   <<"VisionPending", "Idle">>, <<"VisionDone", "NutritionPending">>,
   <<"VisionDone", "Idle">>, <<"NutritionPending", "Idle">>}

\* C27: a run goes from upload to the pending vision call, from there to
\* the end of the vision stage (done or failed), then to the pending
\* lookups and to its end, and no other way; lookups are started only when
\* the vision stage has ended with success and at least one candidate; and
\* the items are set and the step moved to review only by the step that
\* ends the wait for the lookups, which for a batch or a set of individual
\* lookups that returned means that every lookup has ended.
C27_RunStages ==
  [][/\ RunStage' # RunStage => <<RunStage, RunStage'>> \in StageSteps
     /\ (batchCalls' > batchCalls \/ resolverCalls' > resolverCalls) =>
          /\ RunStage \in {"VisionDone", "NutritionPending"}
          /\ detectResult.isSuccess
          /\ detectResult.data.foodItems # <<>>
          /\ Len(detectedItems) = Len(detectResult.data.foodItems)
     /\ (RunStage' = "Idle" /\ RunStage = "VisionPending") =>
          /\ error' # MsgNull
          /\ currentStep' = "Upload"
          /\ foodItems' = foodItems
     /\ (currentStep = "Upload" /\ (currentStep' = "Review" \/ foodItems' # foodItems)) =>
          /\ RunStage \in {"VisionDone", "NutritionPending"}
          /\ RunStage' = "Idle"
          /\ currentStep' = "Review"
          /\ returnedBy' # "none"
          /\ returnedBy' \in {"batch", "individual"} =>
               /\ RunStage = "NutritionPending"
               /\ Len(taskPc) = Len(detectedItems)
               /\ \A i \in 1..Len(taskPc) : taskPc[i] = "done"]_vars

\* a run whose result was published after two lookups, one of them having
\* found nothing
C27_Witness ==
  /\ currentStep = "Review"
  /\ fpc = "idle"
  /\ returnedBy = "batch"
  /\ Len(foodItems) = 2
  /\ \A i \in 1..Len(taskPc) : taskPc[i] = "done"
  /\ \E i \in 1..Len(taskPc) : taskUsda[i].status = "fail" /\ taskOff[i].status = "fail"

\* a failure has occurred in the run: the model call threw or answered
\* without content (surfaced), the answer held no JSON and the empty result
\* was used, or a provider call threw (absorbed)
FailureOccurred ==
  \/ visionAnswer \in {"throws", "empty", "garbage"}
  \/ \E i \in 1..Len(lookups) : lookups[i].usda = "throws" \/ lookups[i].off = "throws"

\* C24: when a failure has occurred in a run, absorbed or surfaced, the
\* run's trace holds an entry of level error or warn, and the summary of the
\* trace reports hasErrors.
C24_FailuresReported ==
  FailureOccurred =>
    /\ \E p \in 1..Len(serverLogs) :
         /\ serverLogs[p].traceId = TracedId
         /\ serverLogs[p].level \in {"error", "warn"}
    /\ traceSummary(serverLogs, TracedId).hasErrors

\* the stages of the run that were entered and those whose call is over
Entered(stage) ==
  IF stage = VisionStage THEN tracedPc # "start"
  ELSE /\ stage[2] \in 1..Len(lookups)
       /\ IF stage[1] = "USDA" THEN lookups[stage[2]].pc # "start"
          ELSE lookups[stage[2]].pc \in {"off", "done"}

Returned(stage) ==
  IF stage = VisionStage THEN visionAnswer # "none"
  ELSE /\ stage[2] \in 1..Len(lookups)
       /\ IF stage[1] = "USDA" THEN lookups[stage[2]].usda # "none"
          ELSE lookups[stage[2]].off # "none"

Stages == {VisionStage} \cup ({"USDA", "OFF"} \X (1..2))

IsRequest(log, stage) ==
  /\ log.traceId = TracedId
  /\ log.data = stage
  /\ log.step = IF stage = VisionStage THEN "OPENAI_VISION_REQUEST"
                ELSE "NUTRITION_API_REQUEST"

IsAnswer(log, stage) ==
  /\ log.traceId = TracedId
  /\ log.data = stage
  /\ log.step = IF stage = VisionStage THEN "OPENAI_VISION_RESPONSE"
                ELSE "NUTRITION_API_RESPONSE"
  /\ log.message \in {"OpenAI Vision API Response", "Nutrition API Response",
                      "API Error"}

\* C28: a stage entered under a trace id has its request entry in the trace
\* from before its external call on, exactly one; once the call has returned
\* or thrown, a response entry or an error entry of the stage follows the
\* request entry in the trace; and no response or error entry of a stage
\* comes before its request entry.
C28_RequestThenAnswer ==
  \A stage \in Stages :
    /\ Entered(stage) <=>
         \E p \in 1..Len(serverLogs) : IsRequest(serverLogs[p], stage)
    /\ Cardinality({p \in 1..Len(serverLogs) : IsRequest(serverLogs[p], stage)}) <= 1
    /\ Returned(stage) =>
         \E p, q \in 1..Len(serverLogs) :
           /\ p < q
           /\ IsRequest(serverLogs[p], stage)
           /\ IsAnswer(serverLogs[q], stage)
    /\ \A q \in 1..Len(serverLogs) :
         IsAnswer(serverLogs[q], stage) =>
           \E p \in 1..q - 1 : IsRequest(serverLogs[p], stage)

\* two lookups are over; in one the USDA call threw and the other provider
\* answered records, and the entries of the two lookups are interleaved
C28_Witness ==
  /\ Len(lookups) = 2
  /\ \A i \in 1..2 : lookups[i].pc = "done"
  /\ lookups[1].usda = "throws"
  /\ lookups[1].off = "items"
  /\ visionAnswer = "fenced"
  /\ \E p, q, r \in 1..Len(serverLogs) :
       /\ p < q /\ q < r
       /\ serverLogs[p].data = <<"USDA", 1>>
       /\ serverLogs[q].data = <<"USDA", 2>>
       /\ serverLogs[r].data = <<"USDA", 1>>

\* C29: a final-item entry is added to a trace only for the assembled list,
\* when every lookup of the run is over: in the trace no final-item entry
\* comes before a nutrition-request or nutrition-response entry.
C29_FinalItemLast ==
  \A p, q \in 1..Len(serverLogs) :
    (/\ p < q
     /\ serverLogs[p].traceId = serverLogs[q].traceId
     /\ serverLogs[p].step = "FINAL_FOOD_ITEM") =>
      serverLogs[q].step \notin {"NUTRITION_API_REQUEST", "NUTRITION_API_RESPONSE"}

====
